---- MODULE Spec2Model ----
(***************************************************************************)
(* DeploymentRunner of webapp/app.py: the background runner that executes  *)
(* deploy.py, tails its output and reconstructs stage and task progress.   *)
(*                                                                         *)
(* Strings are sequences of tokens: a Python str is modelled as the        *)
(* sequence of the pieces it is made of, substring tests are contiguous    *)
(* sub-sequence tests, startswith is the prefix test and concatenation is  *)
(* \o.  The lines the child emits are tokenised so that every keyword of   *)
(* the tables below falls on token boundaries.                             *)
(* None is the empty tuple <<>>, a value v that may be None is <<v>>.      *)
(***************************************************************************)
EXTENDS Integers, Sequences, FiniteSets, TLC

\* ------------------------------------------------------------------ bounds
\* lines read from the children, and start() calls, in a behaviour of Spec
MaxLines == 3
MaxCalls == 1
\* the same for SpecCtl and SpecSnap
CtlMaxLines == 3
CtlMaxCalls == 3
SnapMaxCalls == 1
\* the same for SpecLog: more lines than the log holds
LogMaxLines == 203
LogMaxCalls == 1
\* the same for SpecScenario (the longest script has five lines) and SpecLive
ScenarioMaxLines == 5
ScenarioMaxCalls == 1
LiveMaxLines == 2
LiveMaxCalls == 2

\* ------------------------------------------------------- string primitives
None == <<>>
Some(v) == <<v>>

\* str.__contains__: k in s
Contains(s, k) ==
  \E i \in 1..(Len(s) - Len(k) + 1) : SubSeq(s, i, i + Len(k) - 1) = k

\* str.startswith
StartsWith(s, p) ==
  /\ Len(p) <= Len(s)
  /\ SubSeq(s, 1, Len(p)) = p

\* str.lower, token by token
LowerTok(t) ==
  CASE t = "Performing" -> "performing"
    [] t = "Destroying" -> "destroying"
    [] t = "Destroy complete" -> "destroy complete"
    [] t = "Destruction complete" -> "destruction complete"
    [] t = "Using" -> "using"
    [] t = "Terraform" -> "terraform"
    [] t = "OpenTofu" -> "opentofu"
    [] t = "[INFO]" -> "[info]"
    [] t = "Creating" -> "creating"
    [] t = "VM" -> "vm"
    [] t = "TASK [" -> "task ["
    [] t = "Gathering Facts" -> "gathering facts"
    [] t = "Running Ansible " -> "running ansible "
    [] t = "Ansible " -> "ansible "
    [] t = "NAT configuration" -> "nat configuration"
    [] t = "Deployment completed successfully" -> "deployment completed successfully"
    [] t = "TERRAFORM DEPLOYMENT" -> "terraform deployment"
    [] t = "True" -> "true"
    [] t = "TRUE" -> "true"
    [] t = "False" -> "false"
    [] t = "FALSE" -> "false"
    [] OTHER -> t

Lower(s) == [i \in 1..Len(s) |-> LowerTok(s[i])]

AnsiTokens == {"ESC[0;32m", "ESC[0m"}
Whitespace == {" ", "\n"}

RECURSIVE LStrip(_, _)
LStrip(s, chars) ==
  IF s # <<>> /\ Head(s) \in chars THEN LStrip(Tail(s), chars) ELSE s

RECURSIVE RStrip(_, _)
RStrip(s, chars) ==
  IF s # <<>> /\ s[Len(s)] \in chars
  THEN RStrip(SubSeq(s, 1, Len(s) - 1), chars)
  ELSE s

\* str.strip(chars)
StripChars(s, chars) == RStrip(LStrip(s, chars), chars)

\* ANSI_ESCAPE.sub("", raw_line).strip()
CleanLine(raw) ==
  StripChars(SelectSeq(raw, LAMBDA t : t \notin AnsiTokens), Whitespace)

\* index of the first occurrence of sep in s, 0 when absent
FirstIndex(s, sep) ==
  IF Contains(s, sep)
  THEN CHOOSE i \in 1..(Len(s) - Len(sep) + 1) :
         /\ SubSeq(s, i, i + Len(sep) - 1) = sep
         /\ \A j \in 1..(i - 1) : SubSeq(s, j, j + Len(sep) - 1) # sep
  ELSE 0

\* s.split(sep, 1)[0]
SplitHead(s, sep) ==
  IF FirstIndex(s, sep) = 0 THEN s ELSE SubSeq(s, 1, FirstIndex(s, sep) - 1)

\* s.split(sep, 1)[-1]
SplitLast(s, sep) ==
  IF FirstIndex(s, sep) = 0
  THEN s
  ELSE SubSeq(s, FirstIndex(s, sep) + Len(sep), Len(s))

\* str(n) for the exit codes and counters the model uses
IntStr(n) ==
  CASE n = 0 -> "0"
    [] n = 1 -> "1"
    [] n = 2 -> "2"
    [] n = 3 -> "3"
    [] n = 4 -> "4"
    [] n = 5 -> "5"
    [] n = 6 -> "6"
    [] n = 7 -> "7"
    [] n = 8 -> "8"
    [] n = 9 -> "9"
    [] n = 137 -> "137"
    [] OTHER -> "n"


\* ---------------------------------------------------------- static tables
\* The check mark of deploy.py's messages is written [v].
Def(id, ev, role, tasks) ==
  [id |-> id, progress_event |-> ev, requires_role |-> role, tasks |-> tasks]

STAGE_DEFINITIONS(m) ==
  IF m = "deploy"
  THEN << Def("setup", "none", "none",
              << <<"Check prerequisites">>, <<"Validate terraform.tfvars">>,
                 <<"Load validated variables">>, <<"Ensure SSH keys">> >>),
          Def("terraform", "terraform_step", "none",
              << <<"Initialize & validate">>, <<"Create execution plan">>,
                 <<"Apply infrastructure">> >>),
          Def("nat", "ansible_task", "none",
              << <<"Build inventories">>, <<"Configure SSH NAT rules">>,
                 <<"Configure service NAT rules">>,
                 <<"Validate NAT connectivity">>,
                 <<"Summarize port mappings">> >>),
          Def("vm", "ansible_task", "none",
              << <<"Update package cache">>, <<"Install base packages">>,
                 <<"Configure firewall">>, <<"Create system directories">>,
                 <<"Apply timezone">>, <<"Reboot if required">> >>),
          Def("k3s", "ansible_task", "k3s",
              << <<"Install K3s binaries">>, <<"Start K3s service">>,
                 <<"Verify API server">>, <<"Fetch kubeconfig">>,
                 <<"Update kubeconfig endpoint">>,
                 <<"Set kubeconfig permissions">> >>),
          Def("docker", "ansible_task", "docker",
              << <<"Install prerequisites">>, <<"Deploy Docker packages">>,
                 <<"Enable Docker services">> >>),
          Def("openfaas", "ansible_task", "none",
              << <<"Install Helm if needed">>, <<"Add OpenFaaS repo">>,
                 <<"Install OpenFaaS chart">>, <<"Wait for gateway pods">>,
                 <<"Retrieve admin password">>, <<"Verify OpenFaaS pods">> >>) >>
  ELSE IF m = "destroy"
  THEN << Def("destroy_nat", "ansible_task", "none",
              << <<"Load inventories">>, <<"Remove SSH NAT rules">>,
                 <<"Remove service NAT rules">>, <<"Validate removal">> >>),
          Def("destroy_tf", "terraform_destroy", "none",
              << <<"Select Terraform/OpenTofu">>,
                 <<"Destroy VM resources">> >>) >>
  ELSE << >>

ModeNames == {"deploy", "destroy"}
DEFAULT_MODE == "deploy"

Seq3(label, keywords, complete_keywords) ==
  [label |-> label, keywords |-> keywords,
   complete_keywords |-> complete_keywords]

\* the table without "No changes needed" among the start keywords of the
\* plan task, where it hides the completion keyword of the same text
TERRAFORM_TASK_SEQUENCE_Unshadowed ==
  << Seq3(<<"Initialize & validate">>,
          << <<"Initializing">>, <<"Validating configuration">> >>,
          << <<"[v] ", "Configuration valid">> >>),
     Seq3(<<"Create execution plan">>,
          << <<"Planning deployment">>, <<"PLAN SUMMARY">> >>,
          << <<"[v] ", "Plan created">>, <<"[v] ", "No changes needed">> >>),
     Seq3(<<"Apply infrastructure">>,
          << <<"Creating", " ", "VM">>, <<"[INFO]", " ", "Creating">> >>,
          << <<"[v] ", "Infrastructure created successfully">> >>) >>

TERRAFORM_TASK_SEQUENCE ==
  << Seq3(<<"Initialize & validate">>,
          << <<"Initializing">>, <<"Validating configuration">> >>,
          << <<"[v] ", "Configuration valid">> >>),
     Seq3(<<"Create execution plan">>,
          << <<"Planning deployment">>, <<"PLAN SUMMARY">>,
             <<"[v] ", "No changes needed">> >>,
          << <<"[v] ", "Plan created">>, <<"[v] ", "No changes needed">> >>),
     Seq3(<<"Apply infrastructure">>,
          << <<"Creating", " ", "VM">>, <<"[INFO]", " ", "Creating">> >>,
          << <<"[v] ", "Infrastructure created successfully">> >>) >>

SeqKeywords(sequence) ==
  UNION { {sequence[i].keywords[j] : j \in 1..Len(sequence[i].keywords)}
          \cup {sequence[i].complete_keywords[j] :
                  j \in 1..Len(sequence[i].complete_keywords)}
        : i \in 1..Len(sequence) }

TERRAFORM_KEYWORDS == SeqKeywords(TERRAFORM_TASK_SEQUENCE)

DESTROY_TASK_SEQUENCE ==
  << Seq3(<<"Select Terraform/OpenTofu">>,
          << >>,
          << <<"Using", " ", "Terraform">>, <<"Using", " ", "OpenTofu">> >>),
     Seq3(<<"Destroy VM resources">>,
          << <<"Performing", " ", "terraform", " ", "destroy">>,
             <<"Performing", " ", "tofu", " ", "destroy">>,
             <<"Performing", " ", "terraform", " ", "destroy", " ",
               "-auto-approve">>,
             <<"Performing", " ", "tofu", " ", "destroy", " ",
               "-auto-approve">>,
             <<"Destroying", "...">>,
             <<"destroy", " ", "-auto-approve">> >>,
          << <<"Destroy complete", "!">>, <<"Destroy complete">>,
             <<"Destruction complete">> >>) >>

DESTROY_KEYWORDS ==
  SeqKeywords(DESTROY_TASK_SEQUENCE)
    \cup { <<"Destroying", "...">>, <<"Destruction complete">> }

HEADER_STAGE_MAP ==
  << [text |-> <<"INITIAL SETUP AND VALIDATION">>, stage |-> "setup"],
     [text |-> <<"TERRAFORM DEPLOYMENT">>, stage |-> "terraform"] >>

ANSIBLE_STAGE_KEYWORDS ==
  << [label |-> <<"NAT configuration">>, stage |-> "nat"],
     [label |-> <<"VM configuration">>, stage |-> "vm"],
     [label |-> <<"K3s installation">>, stage |-> "k3s"],
     [label |-> <<"Docker installation">>, stage |-> "docker"],
     [label |-> <<"OpenFaaS installation">>, stage |-> "openfaas"],
     [label |-> <<"NAT rule removal">>, stage |-> "destroy_nat"] >>

LogCapacity == 200


\* ------------------------------------------------------------ task helpers
Task(label, status) == [label |-> label, status |-> status]

SetStatus(tasks, idxs, status) ==
  [i \in 1..Len(tasks) |->
     IF i \in idxs THEN Task(tasks[i].label, status) ELSE tasks[i]]

WithStatus(tasks, statuses) ==
  {i \in 1..Len(tasks) : tasks[i].status \in statuses}

\* smallest member of a non-empty set of indexes
Lowest(idxs) == CHOOSE i \in idxs : \A j \in idxs : i <= j

\* f"{name} ({n})"
Numbered(name, n) == name \o <<" (" \o IntStr(n) \o ")">>


\* _mark_tasks(stage, action), as the new task list
_mark_tasks(tasks, action) ==
  IF tasks = << >> THEN tasks
  ELSE CASE action = "start" ->
              IF WithStatus(tasks, {"pending"}) = {} THEN tasks
              ELSE SetStatus(tasks, {Lowest(WithStatus(tasks, {"pending"}))},
                             "running")
         [] action = "complete" ->
              SetStatus(tasks, WithStatus(tasks, {"pending", "running"}),
                        "completed")
         [] action = "fail" ->
              SetStatus(SetStatus(tasks, WithStatus(tasks, {"running"}),
                                  "failed"),
                        WithStatus(tasks, {"pending"}), "skipped")
         [] action = "skip" ->
              SetStatus(tasks, WithStatus(tasks, {"pending"}), "skipped")
         [] OTHER -> tasks

\* _extract_ansible_task_name: ANSIBLE_TASK_PATTERN.search(line).group(1)
\* stripped; << >> stands for None and for the empty name alike (both falsy)
_extract_ansible_task_name(line) ==
  IF ~Contains(line, <<"TASK [">>) THEN << >>
  ELSE LET i == FirstIndex(line, <<"TASK [">>)
           closing == {j \in (i + 2)..Len(line) : line[j] = "]"}
       IN IF closing = {} THEN << >>
          ELSE StripChars(SubSeq(line, i + 1, Lowest(closing) - 1), Whitespace)

\* a named task opened without closing the tasks that are running
AdvanceTaskKeepsRunning(tasks, task_name) ==
  IF task_name = << >> THEN tasks
  ELSE Append(tasks, Task(task_name, "running"))

\* _advance_task(stage, task_name), as the new task list
_advance_task(tasks, task_name) ==
  IF tasks = << >> /\ task_name = << >> THEN tasks
  ELSE IF task_name # << >>
  THEN LET done == SetStatus(tasks, WithStatus(tasks, {"running"}),
                             "completed")
           existing_running ==
             \E i \in 1..Len(done) :
               done[i].label = task_name /\ done[i].status = "running"
           duplicate_count ==
             Cardinality({i \in 1..Len(done) :
                            StartsWith(done[i].label, task_name)})
           label == IF duplicate_count > 0
                    THEN Numbered(task_name, duplicate_count + 1)
                    ELSE task_name
       IN IF existing_running THEN done
          ELSE Append(done, Task(label, "running"))
  ELSE IF WithStatus(tasks, {"running"}) # {}
  THEN LET running_index == Lowest(WithStatus(tasks, {"running"}))
           later == {i \in WithStatus(tasks, {"pending"}) : i > running_index}
           done == SetStatus(tasks, {running_index}, "completed")
       IN IF later = {} THEN done
          ELSE SetStatus(done, {Lowest(later)}, "running")
  ELSE IF WithStatus(tasks, {"pending"}) # {}
  THEN SetStatus(tasks, {Lowest(WithStatus(tasks, {"pending"}))}, "running")
  ELSE tasks

\* _ensure_base_task_progress that sets the target running again when it
\* was completed
EnsureProgressRestarts(tasks, base_count, target_index, complete) ==
  IF target_index >= base_count THEN tasks
  ELSE LET t == target_index + 1
           earlier == SetStatus(tasks, 1..target_index, "completed")
       IN IF complete
          THEN LET done == SetStatus(earlier, {t}, "completed")
               IN IF t + 1 <= base_count /\ done[t + 1].status = "pending"
                  THEN SetStatus(done, {t + 1}, "running")
                  ELSE done
          ELSE SetStatus(earlier, {t}, "running")

\* _ensure_base_task_progress(stage, target_index, complete, sequence), with
\* target_index counted from 0 as in the source
_ensure_base_task_progress(tasks, base_count, target_index, complete) ==
  IF target_index >= base_count THEN tasks
  ELSE LET t == target_index + 1
           earlier == SetStatus(tasks, 1..target_index, "completed")
       IN IF complete
          THEN LET done == SetStatus(earlier, {t}, "completed")
               IN IF t + 1 <= base_count /\ done[t + 1].status = "pending"
                  THEN SetStatus(done, {t + 1}, "running")
                  ELSE done
          ELSE IF earlier[t].status # "completed"
               THEN SetStatus(earlier, {t}, "running")
               ELSE earlier

Min(a, b) == IF a < b THEN a ELSE b

DynamicRunning(tasks, base_count) ==
  {i \in WithStatus(tasks, {"running"}) : i > base_count}

\* the label a per-resource task gets: base_label, or base_label (n) when
\* base_label is already the label of a dynamic task
DynamicLabel(tasks, base_count, base_label) ==
  LET existing == {i \in (base_count + 1)..Len(tasks) :
                     StartsWith(tasks[i].label, base_label)}
  IN IF \E i \in existing : tasks[i].label = base_label
     THEN Numbered(base_label, Cardinality(existing) + 1)
     ELSE base_label

\* a creation task appended without closing the one that is running
AddCreationTaskKeepsRunning(tasks, base_count, line) ==
  IF base_count = 0 THEN tasks
  ELSE Append(_ensure_base_task_progress(tasks, base_count,
                                         Min(base_count - 1, 2), FALSE),
              Task(<<"Creating", " ", "resource">>, "running"))

\* _add_creation_task(stage, line)
_add_creation_task(tasks, base_count, line) ==
  IF base_count = 0 THEN tasks
  ELSE LET applied == _ensure_base_task_progress(
                        tasks, base_count, Min(base_count - 1, 2), FALSE)
           closed == SetStatus(applied, DynamicRunning(applied, base_count),
                               "completed")
           stripped == StripChars(SplitLast(line, <<"Creating">>),
                                  {" ", ".", ":", "..."})
           label == IF stripped = << >> THEN <<"resource">> ELSE stripped
           base_label == <<"Creating", " ">> \o label
       IN Append(closed,
                 Task(DynamicLabel(closed, base_count, base_label), "running"))

\* _complete_dynamic_tasks and _complete_destroy_dynamic_tasks
_complete_dynamic_tasks(tasks, base_count) ==
  SetStatus(tasks,
            {i \in WithStatus(tasks, {"pending", "running"}) : i > base_count},
            "completed")

AnyIn(line, keywords) ==
  \E j \in 1..Len(keywords) : Contains(line, keywords[j])

\* _advance_terraform_task(stage, line)
_advance_terraform_task(tasks, base_count, line) ==
  LET hits == {i \in 1..Len(TERRAFORM_TASK_SEQUENCE) :
                 \/ AnyIn(line, TERRAFORM_TASK_SEQUENCE[i].keywords)
                 \/ AnyIn(line, TERRAFORM_TASK_SEQUENCE[i].complete_keywords)}
  IN IF line = << >> \/ tasks = << >> \/ hits = {} THEN tasks
     ELSE LET idx == Lowest(hits)
              config == TERRAFORM_TASK_SEQUENCE[idx]
          IN IF AnyIn(line, config.keywords)
             THEN LET started == _ensure_base_task_progress(
                                   tasks, base_count, idx - 1, FALSE)
                  IN IF Contains(line, <<"[INFO]", " ", "Creating">>)
                     THEN _add_creation_task(started, base_count, line)
                     ELSE started
             ELSE LET done == _ensure_base_task_progress(
                                tasks, base_count, idx - 1, TRUE)
                  IN IF config.label = <<"Apply infrastructure">>
                     THEN _complete_dynamic_tasks(done, base_count)
                     ELSE done

\* a task of a resource put in front of the list instead of at its end
AddDestroyTaskInFront(tasks, base_count, line) ==
  IF base_count = 0 THEN tasks
  ELSE <<Task(<<"Destroying", " ", "resource">>, "running")>> \o tasks

\* _add_destroy_task(stage, line)
_add_destroy_task(tasks, base_count, line) ==
  IF base_count = 0 THEN tasks
  ELSE LET applied == _ensure_base_task_progress(
                        tasks, base_count,
                        Min(base_count - 1, Len(DESTROY_TASK_SEQUENCE) - 1),
                        FALSE)
           closed == SetStatus(applied, DynamicRunning(applied, base_count),
                               "completed")
           resource ==
             IF Contains(line, <<":", " ", "Destroying">>)
             THEN StripChars(SplitHead(line, <<":", " ", "Destroying">>),
                             Whitespace)
             ELSE SplitHead(StripChars(line, Whitespace), <<" ">>)
           base_label == <<"Destroying", " ">> \o resource
       IN Append(closed,
                 Task(DynamicLabel(closed, base_count, base_label), "running"))

\* _complete_matching_destroy_task(stage, line)
_complete_matching_destroy_task(tasks, base_count, line) ==
  LET resource == StripChars(SplitHead(line, <<":">>), Whitespace)
      prefix == <<"Destroying", " ">> \o resource
  IN SetStatus(tasks,
               {i \in (base_count + 1)..Len(tasks) :
                  StartsWith(tasks[i].label, prefix)},
               "completed")

AnyInLower(line, keywords) ==
  \E j \in 1..Len(keywords) : Contains(Lower(line), Lower(keywords[j]))

\* one turn of the loop of _advance_destroy_task, for the table entry idx
DestroySequenceStep(tasks, base_count, line, idx) ==
  LET config == DESTROY_TASK_SEQUENCE[idx]
      started == IF AnyInLower(line, config.keywords)
                 THEN _ensure_base_task_progress(tasks, base_count, idx - 1,
                                                 FALSE)
                 ELSE tasks
  IN IF AnyInLower(line, config.complete_keywords)
     THEN LET done == _ensure_base_task_progress(started, base_count,
                                                 idx - 1, TRUE)
          IN IF config.label = <<"Destroy VM resources">>
             THEN _complete_dynamic_tasks(done, base_count)
             ELSE done
     ELSE started

RECURSIVE DestroySequenceLoop(_, _, _, _)
DestroySequenceLoop(tasks, base_count, line, idx) ==
  IF idx > Len(DESTROY_TASK_SEQUENCE) THEN tasks
  ELSE DestroySequenceLoop(DestroySequenceStep(tasks, base_count, line, idx),
                           base_count, line, idx + 1)

\* _advance_destroy_task(stage, line)
_advance_destroy_task(tasks, base_count, line) ==
  IF line = << >> \/ tasks = << >> THEN tasks
  ELSE LET looped == DestroySequenceLoop(tasks, base_count, line, 1)
       IN IF Contains(line, <<"Destroying", "...">>)
          THEN _add_destroy_task(looped, base_count, line)
          ELSE IF \/ Contains(line, <<"Destruction complete">>)
                  \/ Contains(line, <<"Destroy complete">>)
               THEN _complete_matching_destroy_task(looped, base_count, line)
               ELSE looped


\* -------------------------------------------------------------- the state
VARIABLES
  running,        \* self.running
  mode,           \* self.mode
  role_usage,     \* self.role_usage
  stage_state,    \* self.stage_state
  logs,           \* self.logs
  current_stage,  \* self.current_stage, None when no stage is active
  started_at,     \* self.started_at
  finished_at,    \* self.finished_at
  return_code,    \* self.return_code
  lock,           \* holder of self._lock: "free" or "worker"
  threads,        \* live deploy-runner threads
  wpc,            \* position of the deploy-runner thread
  line,           \* the line the thread is handling
  nlines,         \* raw lines read from the children so far
  calls,          \* start() calls made so far
  ret,            \* what the latest start() call returned
  asked,          \* the mode argument of the latest start() call
  clock,          \* time.time() readings taken so far
  appended,       \* every line appended to the log since the last reset
  at_eof,         \* the stages and current stage when the stream closed
  snap,           \* the latest value status_snapshot() returned
  argv,           \* sys.argv[1:] of an invocation of deploy.py
  config_file,    \* deploy.config in the working directory, None when absent
  args,           \* what parse_arguments() returned, None before it ran
  mpc,            \* position of main() of deploy.py
  trace,          \* the steps main() has called, in order, with their outcome
  exit_status     \* exit status of deploy.py, None while it runs

\* the command line of deploy.py, what it was parsed to, and its main()
cli == <<argv, config_file, args, mpc, trace, exit_status>>

vars == <<running, mode, role_usage, stage_state, logs, current_stage,
          started_at, finished_at, return_code, lock, threads, wpc, line,
          nlines, calls, ret, asked, clock, appended, at_eof, snap, argv,
          config_file, args, mpc, trace, exit_status>>

\* what status_snapshot reports
observable == <<running, mode, stage_state, logs, started_at, finished_at,
                return_code>>

Statuses == {"pending", "running", "completed", "failed", "skipped"}
Terminal == {"completed", "failed", "skipped"}

\* determine_vm_role_usage() reads terraform.tfvars: any of these maps
RoleUsages == { [k3s |-> TRUE, docker |-> FALSE],
                [k3s |-> FALSE, docker |-> TRUE] }

\* _reset_state that keeps every stage, whatever role it requires
RoleActiveAlways(usage, role) == TRUE

RoleActive(usage, role) ==
  CASE role = "k3s" -> usage.k3s
    [] role = "docker" -> usage.docker
    [] OTHER -> FALSE

\* the stage list _reset_state builds
StageEntry(def) ==
  [id |-> def.id,
   progress_event |-> def.progress_event,
   tasks |-> [i \in 1..Len(def.tasks) |-> Task(def.tasks[i], "pending")],
   status |-> "pending",
   note |-> "Waiting to start.",
   base_task_count |-> Len(def.tasks)]

_reset_state(m, usage) ==
  LET kept == SelectSeq(STAGE_DEFINITIONS(m),
                        LAMBDA d : d.requires_role = "none"
                                   \/ RoleActive(usage, d.requires_role))
  IN [i \in 1..Len(kept) |-> StageEntry(kept[i])]

\* self._stage_lookup
InLookup(stages, id) == \E i \in 1..Len(stages) : stages[i].id = id
_stage_lookup(stages, id) == CHOOSE i \in 1..Len(stages) : stages[i].id = id

\* _append_log that appends nothing
AppendLogNothing(log, l) == log

\* _append_log that trims with logs[:200], keeping the oldest lines
AppendLogKeepsOldest(log, l) ==
  LET grown == Append(log, l)
  IN IF Len(grown) > LogCapacity
     THEN SubSeq(grown, 1, LogCapacity)
     ELSE grown

\* _append_log, as the new list
_append_log(log, l) ==
  LET grown == Append(log, l)
  IN IF Len(grown) > LogCapacity
     THEN SubSeq(grown, Len(grown) - LogCapacity + 1, Len(grown))
     ELSE grown

SetStage(stages, i, status, note, tasks) ==
  [stages EXCEPT ![i] = [@ EXCEPT !.status = status, !.note = note,
                                  !.tasks = tasks]]

\* the body of _complete_stage, as the new stage list
_complete_stage(stages, id, status, note) ==
  IF ~InLookup(stages, id) THEN stages
  ELSE LET i == _stage_lookup(stages, id)
           action == CASE status = "completed" -> "complete"
                       [] status = "failed" -> "fail"
                       [] status = "skipped" -> "skip"
                       [] OTHER -> "none"
       IN SetStage(stages, i, status, note,
                   _mark_tasks(stages[i].tasks, action))

\* _start_stage that leaves the previous stage as it is
ClosePreviousLeavesRunning(stages, cur) == stages

\* the first half of _start_stage: the previous stage is completed
ClosePrevious(stages, cur) ==
  LET i == _stage_lookup(stages, cur)
  IN SetStage(stages, i, "completed", "Finished.",
              _mark_tasks(stages[i].tasks, "complete"))

\* _start_stage that records the destroy keywords of the line in the stage
\* it has just opened
OpenStageThenRecords(stages, id) ==
  LET i == _stage_lookup(stages, id)
  IN SetStage(stages, i, "running", "In progress...",
              _advance_destroy_task(_mark_tasks(stages[i].tasks, "start"),
                                    stages[i].base_task_count, line))

\* the second half of _start_stage: the stage is set running
OpenStage(stages, id) ==
  LET i == _stage_lookup(stages, id)
  IN SetStage(stages, i, "running", "In progress...",
              _mark_tasks(stages[i].tasks, "start"))

\* _record_progress_event without the comparison of the event with the
\* progress_event of the stage
RecordProgressAnyKind(stages, cur, event_type, l) ==
  IF cur = None \/ ~InLookup(stages, cur[1]) THEN stages
  ELSE LET i == _stage_lookup(stages, cur[1])
           stage == stages[i]
           tasks ==
             CASE event_type = "ansible_task" ->
                    _advance_task(stage.tasks, _extract_ansible_task_name(l))
               [] event_type = "terraform_step" ->
                    _advance_terraform_task(stage.tasks,
                                            stage.base_task_count, l)
               [] event_type = "terraform_destroy" ->
                    _advance_destroy_task(stage.tasks,
                                          stage.base_task_count, l)
               [] OTHER -> stage.tasks
       IN [stages EXCEPT ![i].tasks = tasks]

\* the body of _record_progress_event, as the new stage list
_record_progress_event(stages, cur, event_type, l) ==
  IF cur = None \/ ~InLookup(stages, cur[1]) THEN stages
  ELSE LET i == _stage_lookup(stages, cur[1])
           stage == stages[i]
           tasks ==
             CASE event_type = "ansible_task" ->
                    _advance_task(stage.tasks, _extract_ansible_task_name(l))
               [] event_type = "terraform_step" ->
                    _advance_terraform_task(stage.tasks,
                                            stage.base_task_count, l)
               [] event_type = "terraform_destroy" ->
                    _advance_destroy_task(stage.tasks,
                                          stage.base_task_count, l)
               [] OTHER -> stage.tasks
       IN IF stage.progress_event # event_type THEN stages
          ELSE [stages EXCEPT ![i].tasks = tasks]

\* the stage rule of _handle_line that a line triggers first: a header, then
\* the Ansible phrases in table order; kind "none" when no rule matches
HeaderHits(l) ==
  {i \in 1..Len(HEADER_STAGE_MAP) : Contains(l, HEADER_STAGE_MAP[i].text)}

AnsibleRunning(l, label) == Contains(l, <<"Running Ansible ">> \o label)
AnsibleCompleted(l, label) ==
  Contains(l, <<"Ansible ">> \o label \o <<" completed successfully">>)
AnsibleFailed(l, label) ==
  \/ Contains(l, <<"Ansible ">> \o label \o <<" failed">>)
  \/ Contains(l, label \o <<" failed">>)

AnsibleHits(l) ==
  {i \in 1..Len(ANSIBLE_STAGE_KEYWORDS) :
     \/ AnsibleRunning(l, ANSIBLE_STAGE_KEYWORDS[i].label)
     \/ AnsibleCompleted(l, ANSIBLE_STAGE_KEYWORDS[i].label)
     \/ AnsibleFailed(l, ANSIBLE_STAGE_KEYWORDS[i].label)}

StageRule(l) ==
  IF HeaderHits(l) # {}
  THEN [kind |-> "start", stage |-> HEADER_STAGE_MAP[Lowest(HeaderHits(l))].stage]
  ELSE IF AnsibleHits(l) # {}
  THEN LET e == ANSIBLE_STAGE_KEYWORDS[Lowest(AnsibleHits(l))]
       IN IF AnsibleRunning(l, e.label)
          THEN [kind |-> "start", stage |-> e.stage]
          ELSE IF AnsibleCompleted(l, e.label)
          THEN [kind |-> "completed", stage |-> e.stage]
          ELSE [kind |-> "failed", stage |-> e.stage]
  ELSE [kind |-> "none", stage |-> "none"]

IsPerformDestroy(l) ==
  Contains(l, <<"Performing">>) /\ Contains(Lower(l), <<"destroy">>)

\* _handle_line with the end-of-deployment test before the destroy-start test
StepsCompletedFirst ==
  <<"task", "stage", "terraform", "destroy", "completed", "perform">>

\* the lock-taking steps of _handle_line after the line was logged, in the
\* order of the source; a step applies when its condition on the line holds
Steps == <<"task", "stage", "terraform", "destroy", "perform", "completed">>

\* a handler that takes every line for the end of the deployment
AppliesToEveryLine(step, l) == step = "completed"

Applies(step, l) ==
  CASE step = "task" -> Contains(l, <<"TASK [">>)
    [] step = "stage" -> StageRule(l).kind # "none"
    [] step = "terraform" -> \E k \in TERRAFORM_KEYWORDS : Contains(l, k)
    [] step = "destroy" -> \E k \in DESTROY_KEYWORDS : Contains(l, k)
    [] step = "perform" -> IsPerformDestroy(l)
    [] step = "completed" ->
         Contains(l, <<"Deployment completed successfully">>)
    [] OTHER -> FALSE

\* the next step of _handle_line at or after position k, "read" when the
\* handler is through and the thread reads the next line
StepFrom(k, l) ==
  LET todo == {i \in k..Len(Steps) : Applies(Steps[i], l)}
  IN IF todo = {} THEN "read" ELSE Steps[Lowest(todo)]

\* the stage _start_stage is called with for the line being handled
StartTarget(l) ==
  IF StageRule(l).kind = "start" THEN StageRule(l).stage ELSE "destroy_tf"


\* ------------------------------------------------------------------ Init
\* __init__: DEFAULT_MODE, one reading of the role usage, _reset_state()
Init ==
  /\ running = FALSE
  /\ mode = DEFAULT_MODE
  /\ role_usage \in RoleUsages
  /\ stage_state = _reset_state(DEFAULT_MODE, role_usage)
  /\ logs = << >>
  /\ current_stage = None
  /\ started_at = None
  /\ finished_at = None
  /\ return_code = None
  /\ lock = "free"
  /\ threads = 0
  /\ wpc = "idle"
  /\ line = << >>
  /\ nlines = 0
  /\ calls = 0
  /\ ret = None
  /\ asked = None
  /\ clock = 0
  /\ appended = << >>
  /\ at_eof = None
  /\ argv = [flags |-> {}, workspace |-> None]
  /\ config_file = None
  /\ args = None
  /\ mpc = "main"
  /\ trace = << >>
  /\ exit_status = None
  /\ snap = None

\* ------------------------------------------------------------ controller
\* start() without its check of self.running
AlreadyRunningIgnored == FALSE

\* the check `if self.running: return False` of start()
AlreadyRunning == running

\* `if mode not in STAGE_DEFINITIONS: mode = DEFAULT_MODE`
NormalizeMode(m) == IF m \in ModeNames THEN m ELSE DEFAULT_MODE

\* start() that forgets `self.running = True`
StartedRunNotRunning(m, usage, now) ==
  [mode |-> NormalizeMode(m),
   role_usage |-> usage,
   stage_state |-> _reset_state(NormalizeMode(m), usage),
   logs |-> << >>,
   current_stage |-> None,
   finished_at |-> None,
   return_code |-> None,
   running |-> FALSE,
   started_at |-> Some(now)]

\* start() whose reset leaves the log of the previous run in place
StartedRunKeepsLog(m, usage, now) ==
  [mode |-> NormalizeMode(m),
   role_usage |-> usage,
   stage_state |-> _reset_state(NormalizeMode(m), usage),
   logs |-> logs,
   current_stage |-> None,
   finished_at |-> None,
   return_code |-> None,
   running |-> TRUE,
   started_at |-> Some(now)]

\* what start() leaves behind when it accepts the call: the mode, the role
\* usage read again, _reset_state(), running and started_at
StartedRun(m, usage, now) ==
  [mode |-> NormalizeMode(m),
   role_usage |-> usage,
   stage_state |-> _reset_state(NormalizeMode(m), usage),
   logs |-> << >>,
   current_stage |-> None,
   finished_at |-> None,
   return_code |-> None,
   running |-> TRUE,
   started_at |-> Some(now)]

\* start(mode): one critical section
StartModes == {"deploy", "destroy", "upgrade"}

StartCall(m, usage, maxCalls) ==
  /\ lock = "free"
  /\ calls < maxCalls
  /\ calls' = calls + 1
  /\ asked' = Some(m)
  /\ UNCHANGED cli
  /\ \/ /\ AlreadyRunning
        /\ ret' = Some(FALSE)
        /\ UNCHANGED <<running, mode, role_usage, stage_state, logs,
                       current_stage, started_at, finished_at, return_code,
                       lock, threads, wpc, line, nlines, clock, appended,
                       at_eof, snap>>
     \/ /\ ~AlreadyRunning
        /\ LET new == StartedRun(m, usage, clock + 1)
           IN /\ mode' = new.mode
              /\ role_usage' = new.role_usage
              /\ stage_state' = new.stage_state
              /\ logs' = new.logs
              /\ current_stage' = new.current_stage
              /\ finished_at' = new.finished_at
              /\ return_code' = new.return_code
              /\ running' = new.running
              /\ started_at' = new.started_at
        /\ clock' = clock + 1
        /\ threads' = threads + 1
        /\ wpc' = "spawn"
        /\ line' = << >>
        /\ appended' = << >>
        /\ at_eof' = None
        /\ ret' = Some(TRUE)
        /\ UNCHANGED <<lock, snap, nlines>>

\* ---------------------------------------------------------------- worker
ctl == <<calls, ret, asked, snap>>

\* subprocess.Popen raises: the thread dies before it reads anything
SpawnFails ==
  /\ wpc = "spawn"
  /\ wpc' = "crashed"
  /\ threads' = threads - 1
  /\ UNCHANGED cli
  /\ UNCHANGED <<running, mode, role_usage, stage_state, logs, current_stage,
                 started_at, finished_at, return_code, lock, line, nlines,
                 clock, appended, ctl, at_eof>>

\* the child runs and process.stdout is a pipe
SpawnAttached ==
  /\ wpc = "spawn"
  /\ wpc' = "read"
  /\ UNCHANGED cli
  /\ UNCHANGED <<running, mode, role_usage, stage_state, logs, current_stage,
                 started_at, finished_at, return_code, lock, threads, line,
                 nlines, clock, appended, ctl, at_eof>>

ATTACH_FAILED == <<"Failed to attach to deploy.py stdout.">>

\* a thread that logs the failed attachment and goes on to the read loop
\* and the wait
SpawnDetachedWaits ==
  /\ wpc = "spawn"
  /\ lock = "free"
  /\ logs' = _append_log(logs, ATTACH_FAILED)
  /\ appended' = Append(appended, ATTACH_FAILED)
  /\ wpc' = "read"
  /\ UNCHANGED cli
  /\ UNCHANGED <<running, mode, role_usage, stage_state, current_stage,
                 started_at, finished_at, return_code, lock, threads, line,
                 nlines, clock, ctl, at_eof>>

\* `if not process.stdout`: one diagnostic line, then _finalize_run(False)
SpawnDetached ==
  /\ wpc = "spawn"
  /\ lock = "free"
  /\ logs' = _append_log(logs, ATTACH_FAILED)
  /\ appended' = Append(appended, ATTACH_FAILED)
  /\ wpc' = "finalize"
  /\ UNCHANGED cli
  /\ UNCHANGED <<running, mode, role_usage, stage_state, current_stage,
                 started_at, finished_at, return_code, lock, threads, line,
                 nlines, clock, ctl, at_eof>>

\* the thread reads the next raw line; an empty line is dropped, any other
\* line is appended to the log (the first step of _handle_line)
ReadLine(raw, maxLines) ==
  /\ wpc = "read"
  /\ nlines < maxLines
  /\ nlines' = nlines + 1
  /\ LET l == CleanLine(raw)
     IN IF l = << >>
        THEN UNCHANGED <<logs, appended, wpc, line>>
        ELSE /\ lock = "free"
             /\ logs' = _append_log(logs, l)
             /\ appended' = Append(appended, l)
             /\ wpc' = StepFrom(1, l)
             /\ line' = IF wpc' = "read" THEN << >> ELSE l
  /\ UNCHANGED cli
  /\ UNCHANGED <<running, mode, role_usage, stage_state, current_stage,
                 started_at, finished_at, return_code, lock, threads, clock,
                 ctl, at_eof>>

\* leaving a step of _handle_line for the step `next`
Goto(next) ==
  /\ wpc' = next
  /\ line' = IF next = "read" THEN << >> ELSE line

\* `if "TASK [" in line`: _record_progress_event("ansible_task", line)
RecordAnsible ==
  /\ wpc = "task"
  /\ lock = "free"
  /\ stage_state' = _record_progress_event(stage_state, current_stage,
                                           "ansible_task", line)
  /\ Goto(StepFrom(2, line))
  /\ UNCHANGED cli
  /\ UNCHANGED <<running, mode, role_usage, logs, current_stage, started_at,
                 finished_at, return_code, lock, threads, nlines, clock,
                 appended, ctl, at_eof>>

AtStart == \/ wpc = "stage" /\ StageRule(line).kind = "start"
           \/ wpc = "perform"

\* _start_stage for a stage that is not in the plan
StartStageAbsent ==
  /\ AtStart
  /\ lock = "free"
  /\ ~InLookup(stage_state, StartTarget(line))
  /\ Goto("read")
  /\ UNCHANGED cli
  /\ UNCHANGED <<running, mode, role_usage, stage_state, logs, current_stage,
                 started_at, finished_at, return_code, lock, threads, nlines,
                 clock, appended, ctl, at_eof>>

\* _start_stage that gives the lock back between its two halves
StartStagePreviousUnlocked ==
  /\ AtStart
  /\ lock = "free"
  /\ InLookup(stage_state, StartTarget(line))
  /\ current_stage # None
  /\ current_stage # Some(StartTarget(line))
  /\ stage_state' = ClosePrevious(stage_state, current_stage[1])
  /\ lock' = "free"
  /\ wpc' = "start_stage"
  /\ UNCHANGED cli
  /\ UNCHANGED <<running, mode, role_usage, logs, current_stage, started_at,
                 finished_at, return_code, threads, line, nlines, clock,
                 appended, ctl, at_eof>>

\* _start_stage while another stage is active: that stage is completed
StartStagePrevious ==
  /\ AtStart
  /\ lock = "free"
  /\ InLookup(stage_state, StartTarget(line))
  /\ current_stage # None
  /\ current_stage # Some(StartTarget(line))
  /\ stage_state' = ClosePrevious(stage_state, current_stage[1])
  /\ lock' = "worker"
  /\ wpc' = "start_stage"
  /\ UNCHANGED cli
  /\ UNCHANGED <<running, mode, role_usage, logs, current_stage, started_at,
                 finished_at, return_code, threads, line, nlines, clock,
                 appended, ctl, at_eof>>

\* _start_stage: the stage is set running and becomes the current stage
StartStageOpen ==
  /\ \/ wpc = "start_stage"
     \/ /\ AtStart
        /\ lock = "free"
        /\ InLookup(stage_state, StartTarget(line))
        /\ current_stage = None \/ current_stage = Some(StartTarget(line))
  /\ \E stage_id \in {StartTarget(line)} :
       /\ stage_state' = OpenStage(stage_state, stage_id)
       /\ current_stage' = Some(stage_id)
  /\ lock' = "free"
  /\ Goto("read")
  /\ UNCHANGED cli
  /\ UNCHANGED <<running, mode, role_usage, logs, started_at, finished_at,
                 return_code, threads, nlines, clock, appended, ctl, at_eof>>

\* _complete_stage that clears the current stage whichever stage ended
CompleteStageLineClearsCurrent ==
  /\ wpc = "stage"
  /\ lock = "free"
  /\ StageRule(line).kind \in {"completed", "failed"}
  /\ LET r == StageRule(line)
     IN /\ stage_state' =
             _complete_stage(stage_state, r.stage, r.kind,
                             IF r.kind = "completed" THEN "Finished."
                             ELSE "Failed. Check deployment logs.")
        /\ current_stage' = None
  /\ Goto("read")
  /\ UNCHANGED cli
  /\ UNCHANGED <<running, mode, role_usage, logs, started_at, finished_at,
                 return_code, lock, threads, nlines, clock, appended, ctl, at_eof>>

\* an Ansible phrase "completed successfully" or "failed": _complete_stage
CompleteStageLine ==
  /\ wpc = "stage"
  /\ lock = "free"
  /\ StageRule(line).kind \in {"completed", "failed"}
  /\ LET r == StageRule(line)
     IN /\ stage_state' =
             _complete_stage(stage_state, r.stage, r.kind,
                             IF r.kind = "completed" THEN "Finished."
                             ELSE "Failed. Check deployment logs.")
        /\ current_stage' =
             IF InLookup(stage_state, r.stage) /\ current_stage = Some(r.stage)
             THEN None ELSE current_stage
  /\ Goto("read")
  /\ UNCHANGED cli
  /\ UNCHANGED <<running, mode, role_usage, logs, started_at, finished_at,
                 return_code, lock, threads, nlines, clock, appended, ctl, at_eof>>

\* a TERRAFORM_KEYWORDS line: _record_progress_event("terraform_step", line)
RecordTerraform ==
  /\ wpc = "terraform"
  /\ lock = "free"
  /\ stage_state' = _record_progress_event(stage_state, current_stage,
                                           "terraform_step", line)
  /\ Goto(StepFrom(4, line))
  /\ UNCHANGED cli
  /\ UNCHANGED <<running, mode, role_usage, logs, current_stage, started_at,
                 finished_at, return_code, lock, threads, nlines, clock,
                 appended, ctl, at_eof>>

\* a DESTROY_KEYWORDS line: _record_progress_event("terraform_destroy", line)
RecordDestroy ==
  /\ wpc = "destroy"
  /\ lock = "free"
  /\ stage_state' = _record_progress_event(stage_state, current_stage,
                                           "terraform_destroy", line)
  /\ Goto(StepFrom(5, line))
  /\ UNCHANGED cli
  /\ UNCHANGED <<running, mode, role_usage, logs, current_stage, started_at,
                 finished_at, return_code, lock, threads, nlines, clock,
                 appended, ctl, at_eof>>

ALL_COMPLETED == <<"All stages completed.">>

\* "Deployment completed successfully": the active stage, if any, is
\* completed; without one the handler goes straight to its last log line
DeploymentCompleted ==
  /\ wpc = "completed"
  /\ lock = "free"
  /\ IF current_stage # None
     THEN /\ stage_state' = _complete_stage(stage_state, current_stage[1],
                                            "completed", "Finished.")
          /\ current_stage' = None
          /\ Goto("all_logged")
          /\ UNCHANGED <<logs, appended>>
     ELSE /\ logs' = _append_log(logs, ALL_COMPLETED)
          /\ appended' = Append(appended, ALL_COMPLETED)
          /\ Goto("read")
          /\ UNCHANGED <<stage_state, current_stage>>
  /\ UNCHANGED cli
  /\ UNCHANGED <<running, mode, role_usage, started_at, finished_at,
                 return_code, lock, threads, nlines, clock, ctl, at_eof>>

AllStagesLogged ==
  /\ wpc = "all_logged"
  /\ lock = "free"
  /\ logs' = _append_log(logs, ALL_COMPLETED)
  /\ appended' = Append(appended, ALL_COMPLETED)
  /\ Goto("read")
  /\ UNCHANGED cli
  /\ UNCHANGED <<running, mode, role_usage, stage_state, current_stage,
                 started_at, finished_at, return_code, lock, threads, nlines,
                 clock, ctl, at_eof>>

\* exit codes the child may end with
ExitCodes == {0, 137}

\* _run_deploy without its handling of a non-zero exit code
AbruptExitNever(rc) == FALSE

\* `if not success and self.current_stage` after process.wait()
AbruptExit(rc) == rc # 0 /\ current_stage # None

\* end of the stream: stdout is closed, the exit code awaited and stored
ChildExit(rc) ==
  /\ wpc = "read"
  /\ lock = "free"
  /\ return_code' = Some(rc)
  /\ at_eof' = Some([current_stage |-> current_stage,
                     stage_state |-> stage_state,
                     appended |-> appended])
  /\ wpc' = IF AbruptExit(rc) THEN "abrupt" ELSE "finalize"
  /\ UNCHANGED cli
  /\ UNCHANGED <<running, mode, role_usage, stage_state, logs, current_stage,
                 started_at, finished_at, lock, threads, line, nlines, clock,
                 appended, ctl>>

\* non-zero exit while a stage is active: that stage is failed
AbruptStage ==
  /\ wpc = "abrupt"
  /\ lock = "free"
  /\ stage_state' = _complete_stage(stage_state, current_stage[1], "failed",
                                    "deploy.py exited abruptly.")
  /\ current_stage' = None
  /\ wpc' = "abrupt_log"
  /\ UNCHANGED cli
  /\ UNCHANGED <<running, mode, role_usage, logs, started_at, finished_at,
                 return_code, lock, threads, line, nlines, clock, appended,
                 ctl, at_eof>>

ExitLine(rc) == <<"deploy.py exited with code ", IntStr(rc)>>

AbruptLog ==
  /\ wpc = "abrupt_log"
  /\ lock = "free"
  /\ logs' = _append_log(logs, ExitLine(return_code[1]))
  /\ appended' = Append(appended, ExitLine(return_code[1]))
  /\ wpc' = "finalize"
  /\ UNCHANGED cli
  /\ UNCHANGED <<running, mode, role_usage, stage_state, current_stage,
                 started_at, finished_at, return_code, lock, threads, line,
                 nlines, clock, ctl, at_eof>>

\* the argument of _finalize_run
success == return_code = Some(0)

\* _finalize_run that fails the active stage whatever the exit code
FinalStatusAlwaysFailed(ok) == "failed"

FinalStatus(ok) == IF ok THEN "completed" ELSE "failed"
FinalNote(ok) == IF ok THEN "Finished." ELSE "Deployment stopped."
FinalAction(ok) == IF ok THEN "complete" ELSE "fail"

\* _finalize_run, first part: the stage still active is terminated
FinalizeActive ==
  /\ wpc = "finalize"
  /\ lock = "free"
  /\ current_stage # None
  /\ LET i == _stage_lookup(stage_state, current_stage[1])
     IN stage_state' =
          SetStage(stage_state, i, FinalStatus(success), FinalNote(success),
                   _mark_tasks(stage_state[i].tasks, FinalAction(success)))
  /\ current_stage' = None
  /\ lock' = "worker"
  /\ wpc' = "finalize_pending"
  /\ UNCHANGED cli
  /\ UNCHANGED <<running, mode, role_usage, logs, started_at, finished_at,
                 return_code, threads, line, nlines, clock, appended, ctl, at_eof>>

\* _finalize_run that skips the pending stages but not their tasks
SkipPendingKeepsTasks(stages) ==
  [i \in 1..Len(stages) |->
     IF stages[i].status = "pending"
     THEN [stages[i] EXCEPT !.status = "skipped",
                            !.note = "Not executed in this run."]
     ELSE stages[i]]

\* _finalize_run without its loop over the pending stages
SkipPendingNothing(stages) == stages

\* _finalize_run that fails the stages that never started
SkipPendingAsFailed(stages) ==
  [i \in 1..Len(stages) |->
     IF stages[i].status = "pending"
     THEN [stages[i] EXCEPT !.status = "failed",
                            !.note = "Deployment stopped.",
                            !.tasks = _mark_tasks(stages[i].tasks, "fail")]
     ELSE stages[i]]

\* the stages _finalize_run skips
SkipPending(stages) ==
  [i \in 1..Len(stages) |->
     IF stages[i].status = "pending"
     THEN [stages[i] EXCEPT !.status = "skipped",
                            !.note = "Not executed in this run.",
                            !.tasks = _mark_tasks(stages[i].tasks, "skip")]
     ELSE stages[i]]

\* _finalize_run, second part: every pending stage is skipped
FinalizePending ==
  /\ \/ wpc = "finalize_pending"
     \/ wpc = "finalize" /\ lock = "free" /\ current_stage = None
  /\ stage_state' = SkipPending(stage_state)
  /\ lock' = "worker"
  /\ wpc' = "finalize_done"
  /\ UNCHANGED cli
  /\ UNCHANGED <<running, mode, role_usage, logs, current_stage, started_at,
                 finished_at, return_code, threads, line, nlines, clock,
                 appended, ctl, at_eof>>

\* _finalize_run that never clears running
FinalizeDoneKeepsRunning ==
  /\ wpc = "finalize_done"
  /\ finished_at' = Some(clock + 1)
  /\ clock' = clock + 1
  /\ lock' = "free"
  /\ wpc' = "idle"
  /\ threads' = threads - 1
  /\ UNCHANGED cli
  /\ UNCHANGED <<running, mode, role_usage, stage_state, logs, current_stage,
                 started_at, return_code, line, nlines, appended, ctl, at_eof>>

\* _finalize_run that clears running first and loops over the stages after
FinalizeDoneNotLast ==
  /\ wpc = "finalize_done"
  /\ running' = FALSE
  /\ finished_at' = Some(clock + 1)
  /\ clock' = clock + 1
  /\ lock' = "free"
  /\ wpc' = "finalize_pending"
  /\ UNCHANGED cli
  /\ UNCHANGED <<mode, role_usage, stage_state, logs, current_stage, threads,
                 started_at, return_code, line, nlines, appended, ctl, at_eof>>

\* _finalize_run, last part: running is cleared, the thread ends
FinalizeDone ==
  /\ wpc = "finalize_done"
  /\ running' = FALSE
  /\ finished_at' = Some(clock + 1)
  /\ clock' = clock + 1
  /\ lock' = "free"
  /\ wpc' = "idle"
  /\ threads' = threads - 1
  /\ UNCHANGED cli
  /\ UNCHANGED <<mode, role_usage, stage_state, logs, current_stage,
                 started_at, return_code, line, nlines, appended, ctl, at_eof>>

\* ------------------------------------------------------- status_snapshot
\* the containers status_snapshot() copies instead of handing out the
\* runner's own: the stage list, each stage's task list, the log list
Containers == {"stages", "tasks", "logs"}
Copied == {"stages", "tasks", "logs"}

\* status_snapshot() that reads without taking the lock
SnapshotUnlocked == TRUE

\* `with self._lock` of status_snapshot()
SnapshotLocked == lock = "free"

\* status_snapshot(): the values read, the containers that are still the
\* runner's own objects (none), and the thread's position at that instant
StatusSnapshot ==
  /\ SnapshotLocked
  /\ snap' = Some([running |-> running,
                   started_at |-> started_at,
                   finished_at |-> finished_at,
                   return_code |-> return_code,
                   mode |-> mode,
                   stages |-> stage_state,
                   logs |-> logs,
                   shared |-> Containers \ Copied,
                   taken_at |-> wpc])
  /\ UNCHANGED cli
  /\ UNCHANGED <<running, mode, role_usage, stage_state, logs, current_stage,
                 started_at, finished_at, return_code, lock, threads, wpc,
                 line, nlines, calls, ret, asked, clock, appended, at_eof>>

\* what the holder of the latest snapshot reads in it now: a container that
\* is shared with the runner shows the runner's present content
SnapshotSeen ==
  [running |-> snap[1].running,
   started_at |-> snap[1].started_at,
   finished_at |-> snap[1].finished_at,
   return_code |-> snap[1].return_code,
   mode |-> snap[1].mode,
   stages |-> IF {"stages", "tasks"} \cap snap[1].shared # {}
              THEN stage_state ELSE snap[1].stages,
   logs |-> IF "logs" \in snap[1].shared THEN logs ELSE snap[1].logs]

\* ------------------------------------------------- the child's output
\* deploy.py colours its messages and ends each with a newline
ANSI(l) == <<"ESC[0;32m">> \o l \o <<"ESC[0m", "\n">>

L_HEADER_TF == <<"=== ", "TERRAFORM DEPLOYMENT", " ===">>
L_RUN_NAT == <<"[INFO]", " ", "Running Ansible ", "NAT configuration">>
L_NAT_DONE == <<"Ansible ", "NAT configuration", " completed successfully">>
L_NAT_FAILED == <<"Ansible ", "NAT configuration", " failed">>
L_RUN_K3S == <<"Running Ansible ", "K3s installation">>
L_TASK == <<"TASK [", "Gathering Facts", "]", " ***">>
L_CREATING == <<"[INFO]", " ", "Creating", " ", "VM", "...">>
L_DESTROYING == <<"vm1", ":", " ", "Destroying", "...">>
L_PERFORM == <<"[INFO]", " ", "Performing", " ", "tofu", " ", "destroy">>
L_DEPLOYED == <<"[INFO]", " ", "Deployment completed successfully">>
L_OTHER == <<"Checking formatting">>
L_BLANK == << " " >>

\* the lines of the classifier runs (L_NAT_DONE, L_RUN_K3S and L_OTHER are
\* further lines of deploy.py that these runs leave out)
Lines ==
  { ANSI(L_HEADER_TF), ANSI(L_RUN_NAT), ANSI(L_NAT_FAILED), ANSI(L_TASK),
    ANSI(L_CREATING), ANSI(L_DESTROYING), ANSI(L_PERFORM), ANSI(L_DEPLOYED) }

\* the lines of the controller and snapshot runs
CtlLines == { ANSI(L_HEADER_TF), ANSI(L_RUN_NAT), ANSI(L_BLANK) }

\* the n-th line of a child that numbers its lines
Digits(n) == <<IntStr(n \div 100), IntStr((n \div 10) % 10), IntStr(n % 10)>>
NumberedLine(n) == ANSI(<<"line ">> \o Digits(n))

\* ------------------------------------------------------- specifications
Launch ==
  \/ SpawnFails
  \/ SpawnAttached
  \/ SpawnDetached

StageStart ==
  \/ StartStageAbsent
  \/ StartStagePrevious
  \/ StartStageOpen

Progress ==
  \/ RecordAnsible
  \/ CompleteStageLine
  \/ RecordTerraform
  \/ RecordDestroy
  \/ DeploymentCompleted
  \/ AllStagesLogged

Abrupt ==
  \/ AbruptStage
  \/ AbruptLog
  \/ FinalizeActive

Exit ==
  \/ \E rc \in ExitCodes : ChildExit(rc)
  \/ FinalizePending
  \/ FinalizeDone

\* one run over the classifier's lines
Next ==
  \/ \E m \in ModeNames, u \in RoleUsages : StartCall(m, u, MaxCalls)
  \/ \E raw \in Lines : ReadLine(raw, MaxLines)
  \/ Launch
  \/ StageStart
  \/ Progress
  \/ Abrupt
  \/ Exit

Spec == Init /\ [][Next]_vars

\* several start() calls, concurrent with the thread, and several runs
NextCtl ==
  \/ \E m \in StartModes, u \in RoleUsages : StartCall(m, u, CtlMaxCalls)
  \/ \E raw \in CtlLines : ReadLine(raw, CtlMaxLines)
  \/ Launch
  \/ StageStart
  \/ Abrupt
  \/ Exit

SpecCtl == Init /\ [][NextCtl]_vars

\* one run polled by status_snapshot()
NextSnap ==
  \/ \E m \in ModeNames, u \in RoleUsages : StartCall(m, u, SnapMaxCalls)
  \/ \E raw \in CtlLines : ReadLine(raw, CtlMaxLines)
  \/ StatusSnapshot
  \/ Launch
  \/ StageStart
  \/ Abrupt
  \/ Exit

SpecSnap == Init /\ [][NextSnap]_vars

\* one run of a child that writes more lines than the log holds
NextLog ==
  \/ \E m \in ModeNames, u \in RoleUsages : StartCall(m, u, LogMaxCalls)
  \/ ReadLine(NumberedLine(nlines + 1), LogMaxLines)
  \/ SpawnAttached
  \/ Exit

SpecLog == Init /\ [][NextLog]_vars


\* ------------------------------------------- _handle_line, line by line
\* _handle_line as one function of the stage list and the current stage:
\* what the handler has done to them when it returns
_start_stage(s, stage_id) ==
  IF ~InLookup(s.stages, stage_id) THEN s
  ELSE LET closed == IF s.cur # None /\ s.cur # Some(stage_id)
                     THEN ClosePrevious(s.stages, s.cur[1])
                     ELSE s.stages
       IN [stages |-> OpenStage(closed, stage_id), cur |-> Some(stage_id)]

CompleteStage(s, stage_id, status, note) ==
  [stages |-> _complete_stage(s.stages, stage_id, status, note),
   cur |-> IF InLookup(s.stages, stage_id) /\ s.cur = Some(stage_id)
           THEN None ELSE s.cur]

RecordEvent(s, event_type, l) ==
  [s EXCEPT !.stages = _record_progress_event(s.stages, s.cur, event_type, l)]

_handle_line(s, l) ==
  LET a == IF Contains(l, <<"TASK [">>)
           THEN RecordEvent(s, "ansible_task", l) ELSE s
      rule == StageRule(l)
      b == IF \E k \in TERRAFORM_KEYWORDS : Contains(l, k)
           THEN RecordEvent(a, "terraform_step", l) ELSE a
      c == IF \E k \in DESTROY_KEYWORDS : Contains(l, k)
           THEN RecordEvent(b, "terraform_destroy", l) ELSE b
  IN CASE rule.kind = "start" -> _start_stage(a, rule.stage)
       [] rule.kind = "completed" ->
            CompleteStage(a, rule.stage, "completed", "Finished.")
       [] rule.kind = "failed" ->
            CompleteStage(a, rule.stage, "failed",
                          "Failed. Check deployment logs.")
       [] OTHER ->
            IF IsPerformDestroy(l) THEN _start_stage(c, "destroy_tf")
            ELSE IF Contains(l, <<"Deployment completed successfully">>)
                    /\ c.cur # None
            THEN CompleteStage(c, c.cur[1], "completed", "Finished.")
            ELSE c

\* the read loop of _run_deploy over the lines, in their order
RECURSIVE Replay(_, _)
Replay(s, lines) ==
  IF lines = << >> THEN s
  ELSE Replay(_handle_line(s, Head(lines)), Tail(lines))

\* the positions of the thread inside _handle_line
InLine ==
  wpc \in {"task", "stage", "terraform", "destroy", "perform", "completed",
           "start_stage", "all_logged"}

\* the runs of the two scripted children, and of one that starts a second
\* stage, line by line
TaskMarker(name) == <<"TASK [">> \o name \o <<"]", " ***">>

SCENARIO_A ==
  << L_HEADER_TF,
     <<"Initializing">>,
     <<"[v] ", "Configuration valid">>,
     <<"Planning deployment">>,
     <<"[v] ", "No changes needed">> >>

SCENARIO_B ==
  << L_RUN_K3S,
     TaskMarker(<<"Install K3s binaries">>),
     TaskMarker(<<"Start K3s service">>),
     <<"Ansible ", "K3s installation", " completed successfully">> >>

SCENARIO_OTHER == << L_OTHER, L_RUN_NAT, L_OTHER, L_OTHER, L_OTHER >>

Scenarios == {SCENARIO_A, SCENARIO_B, SCENARIO_OTHER}

\* the lines a child may write as its n-th line
ScenarioLines(n) == {ANSI(s[n]) : s \in {t \in Scenarios : n <= Len(t)}}

NextScenario ==
  \/ \E m \in ModeNames, u \in RoleUsages : StartCall(m, u, ScenarioMaxCalls)
  \/ \E raw \in ScenarioLines(nlines + 1) : ReadLine(raw, ScenarioMaxLines)
  \/ Launch
  \/ StageStart
  \/ RecordAnsible
  \/ CompleteStageLine
  \/ RecordTerraform
  \/ Abrupt
  \/ Exit

SpecScenario == Init /\ [][NextScenario]_vars

\* several runs under a fair scheduler: the thread, once it can take a step,
\* takes one, and a child that can exit does
NextLive ==
  \/ \E m \in StartModes, u \in RoleUsages : StartCall(m, u, LiveMaxCalls)
  \/ \E raw \in CtlLines : ReadLine(raw, LiveMaxLines)
  \/ Launch
  \/ StageStart
  \/ Abrupt
  \/ Exit

Worker == Launch \/ StageStart \/ Abrupt \/ Exit

SpecLive == Init /\ [][NextLive]_vars /\ WF_vars(Worker)

\* ------------------------------------------ the task lists, line by line
\* lines read in a run that follows the tasks of the Terraform stages
TasksMaxLines == 4
TasksMaxCalls == 1

\* what run_terraform_workflow prints (lib/terraform.py), and one line
\* that names a first step and a resource being created
T_VALID == <<"[INFO]", " ", "[v] ", "Configuration valid">>
T_NO_CHANGES == <<"[INFO]", " ", "[v] ", "No changes needed">>
T_PLAN_CREATED ==
  <<"[INFO]", " ", "[v] ", "Plan created", " with changes to apply">>
T_INFRA_CREATED ==
  <<"[INFO]", " ", "[v] ", "Infrastructure created successfully", "!">>
T_INIT_CREATING ==
  <<"Initializing", " ", "[INFO]", " ", "Creating", " ", "vm1">>

\* what the destroy of two resources prints
DestroyingLine(resource) == <<resource, ":", " ", "Destroying", "...">>
DestroyedLine(resource) ==
  <<resource, ":", " ", "Destruction complete", " after 3s">>

TaskLines(m) ==
  IF m = "destroy"
  THEN {L_PERFORM, DestroyingLine("vm1"), DestroyingLine("vm2"),
        DestroyedLine("vm1"), DestroyedLine("vm2")}
  ELSE {L_HEADER_TF, T_VALID, T_NO_CHANGES, T_PLAN_CREATED, L_CREATING,
        T_INFRA_CREATED, T_INIT_CREATING}

\* one run of either mode over the lines of its Terraform stage
NextTasks ==
  \/ \E m \in ModeNames :
       StartCall(m, [k3s |-> TRUE, docker |-> TRUE], TasksMaxCalls)
  \/ \E raw \in TaskLines(mode) : ReadLine(raw, TasksMaxLines)
  \/ Launch
  \/ StartStageOpen
  \/ RecordTerraform
  \/ RecordDestroy
  \/ Abrupt
  \/ Exit

SpecTasks == Init /\ [][NextTasks]_vars

\* ------------------------------------------ progress events and stages
\* lines read in a run whose progress events meet stages of every kind
EventsMaxLines == 3
EventsMaxCalls == 1

L_HEADER_SETUP == <<"=== ", "INITIAL SETUP AND VALIDATION", " ===">>

\* the marker of a task whose own name ends in a counter
L_TASK_NUMBERED == <<"TASK [", "Gathering Facts", " (2)", "]", " ***">>

EventLines ==
  { ANSI(L_HEADER_SETUP), ANSI(L_HEADER_TF), ANSI(L_RUN_NAT), ANSI(L_TASK),
    ANSI(L_CREATING), ANSI(L_DESTROYING), ANSI(L_PERFORM),
    ANSI(L_TASK_NUMBERED) }

\* one run of either mode over stage starts and markers of the three kinds
NextEvents ==
  \/ \E m \in ModeNames, u \in RoleUsages : StartCall(m, u, EventsMaxCalls)
  \/ \E raw \in EventLines : ReadLine(raw, EventsMaxLines)
  \/ Launch
  \/ StageStart
  \/ RecordAnsible
  \/ RecordTerraform
  \/ RecordDestroy
  \/ Abrupt
  \/ Exit

SpecEvents == Init /\ [][NextEvents]_vars

\* ------------------------------------------- lines that match two rules
RulesMaxLines == 3
RulesMaxCalls == 1

R_HEADER_DEPLOYED ==
  L_HEADER_TF \o <<" ", "Deployment completed successfully">>
R_RUN_PERFORM ==
  <<"Running Ansible ", "NAT configuration", ":", " ", "Performing", " ",
    "tofu", " ", "destroy">>
R_PERFORM_DEPLOYED ==
  L_PERFORM \o <<";", " ", "Deployment completed successfully">>
R_TASK_RUN ==
  <<"TASK [", "Gathering Facts", "]", " ", "Running Ansible ",
    "K3s installation">>
R_RUN_K3S_NAT_FAILED ==
  <<"Running Ansible ", "K3s installation", ";", " ", "Ansible ",
    "NAT configuration", " failed">>

RuleLines ==
  { ANSI(R_HEADER_DEPLOYED), ANSI(R_RUN_PERFORM), ANSI(R_PERFORM_DEPLOYED),
    ANSI(R_TASK_RUN), ANSI(R_RUN_K3S_NAT_FAILED), ANSI(L_RUN_NAT),
    ANSI(L_DEPLOYED), ANSI(L_CREATING) }

\* one run over lines that hold the phrases of several rules
NextRules ==
  \/ \E m \in ModeNames, u \in RoleUsages : StartCall(m, u, RulesMaxCalls)
  \/ \E raw \in RuleLines : ReadLine(raw, RulesMaxLines)
  \/ Launch
  \/ StageStart
  \/ Progress
  \/ Abrupt
  \/ Exit

SpecRules == Init /\ [][NextRules]_vars

\* ---------------------------------------- lines of stages not in the plan
AbsentMaxLines == 3
AbsentMaxCalls == 1

L_K3S_DONE == <<"Ansible ", "K3s installation", " completed successfully">>
L_K3S_FAILED == <<"K3s installation", " failed">>

AbsentLines ==
  { ANSI(L_RUN_NAT), ANSI(L_NAT_FAILED), ANSI(L_RUN_K3S), ANSI(L_K3S_DONE),
    ANSI(L_K3S_FAILED), ANSI(L_HEADER_TF), ANSI(L_PERFORM) }

\* one run whose child names stages of the other mode and stages that the
\* role usage has filtered out
NextAbsent ==
  \/ \E m \in ModeNames, u \in RoleUsages : StartCall(m, u, AbsentMaxCalls)
  \/ \E raw \in AbsentLines : ReadLine(raw, AbsentMaxLines)
  \/ Launch
  \/ StageStart
  \/ CompleteStageLine
  \/ RecordDestroy
  \/ Abrupt
  \/ Exit

SpecAbsent == Init /\ [][NextAbsent]_vars

\* ------------------------------------------------- deploy.py, arguments
\* at most this many flags on a command line
ArgsMaxFlags == 1
\* at most this many options in a configuration file
ArgsMaxOptions == 1

\* a Python value of a configuration entry: a bool or a str
Bool(b) == [bool |-> b]
Str(s) == [str |-> s]

\* bool(v) of such a value
Truthy(v) == IF "bool" \in DOMAIN v THEN v.bool ELSE v.str # << >>

\* the store_true options of the argument parser
BooleanOptions ==
  {"force_redeploy", "continue_if_deployed", "skip_nat", "skip_ansible",
   "no_vm_update", "no_k3s", "no_docker", "no_openfaas", "destroy",
   "auto_approve"}

ConfigKeys == BooleanOptions \cup {"workspace"}

\* load_config: the default configuration values
DefaultConfig ==
  [key \in ConfigKeys |->
     CASE key \in {"destroy", "auto_approve"} -> Bool(TRUE)
       [] key = "workspace" -> Str(<< >>)
       [] OTHER -> Bool(FALSE)]

\* load_config: sections_mapping, as the section each key is read from
sections_mapping ==
  [key \in ConfigKeys |->
     CASE key \in {"force_redeploy", "continue_if_deployed", "auto_approve"}
            -> "deployment"
       [] key = "workspace" -> "terraform"
       [] key = "destroy" -> "destruction"
       [] OTHER -> "skip_options"]

\* load_config: value.strip().strip('"').strip("'"), then "true"/"false"
\* in any case become a bool and everything else stays a str
ConvertValue(raw) ==
  LET value == StripChars(StripChars(StripChars(raw, Whitespace), {"\""}),
                          {"'"})
  IN IF Lower(value) \in {<<"true">>, <<"false">>}
     THEN Bool(Lower(value) = <<"true">>)
     ELSE Str(value)

\* load_config(config_file): file is None when deploy.config does not
\* exist; a file the parser rejects leaves the defaults
load_config(file) ==
  IF file = None THEN DefaultConfig
  ELSE IF ~file[1].readable THEN DefaultConfig
  ELSE [key \in ConfigKeys |->
          IF <<sections_mapping[key], key>> \in DOMAIN file[1].options
          THEN ConvertValue(file[1].options[<<sections_mapping[key], key>>])
          ELSE DefaultConfig[key]]

\* parse_arguments(): the parsed command line, then the configuration
\* applied to every option the command line left falsy
parse_arguments(cmd, file) ==
  LET config == load_config(file)
      given == cmd.workspace # None /\ cmd.workspace[1] # << >>
  IN [key \in ConfigKeys |->
        IF key = "workspace"
        THEN IF ~given /\ Truthy(config[key]) THEN Some(config[key])
             ELSE IF cmd.workspace = None THEN None
             ELSE Some(Str(cmd.workspace[1]))
        ELSE key \in cmd.flags \/ Truthy(config[key])]

\* main(): what the script does with the parsed arguments
main(a) == IF a["destroy"] THEN "destroy" ELSE "deploy"

\* the raw option values of the configuration files tried
RawValues ==
  { <<"true">>, <<"True">>, <<"false">>, <<"\"", "FALSE", "\"">>,
    <<"'", "true", "'">>, << >>, <<"dev">> }

\* the entries a configuration file may hold: every key in its own
\* section, and one key in a section it is not read from
FileEntries ==
  {<<sections_mapping[key], key>> : key \in ConfigKeys}
    \cup {<<"deployment", "destroy">>}

ConfigFiles ==
  {None}
    \cup {Some([readable |-> FALSE, options |-> << >>])}
    \cup {Some([readable |-> TRUE, options |-> o]) :
            o \in UNION {[d -> RawValues] :
                           d \in {e \in SUBSET FileEntries :
                                    Cardinality(e) <= ArgsMaxOptions}}}

CommandLines ==
  [flags : {f \in SUBSET BooleanOptions : Cardinality(f) <= ArgsMaxFlags},
   workspace : {None, Some(<<"prod">>)}]

\* one invocation of deploy.py: a command line and a working directory
InitArgs ==
  /\ running = FALSE
  /\ mode = DEFAULT_MODE
  /\ role_usage = [k3s |-> TRUE, docker |-> TRUE]
  /\ stage_state = _reset_state(DEFAULT_MODE, role_usage)
  /\ logs = << >>
  /\ current_stage = None
  /\ started_at = None
  /\ finished_at = None
  /\ return_code = None
  /\ lock = "free"
  /\ threads = 0
  /\ wpc = "idle"
  /\ line = << >>
  /\ nlines = 0
  /\ calls = 0
  /\ ret = None
  /\ asked = None
  /\ clock = 0
  /\ appended = << >>
  /\ at_eof = None
  /\ snap = None
  /\ argv \in CommandLines
  /\ config_file \in ConfigFiles
  /\ args = None
  /\ mpc = "main"
  /\ trace = << >>
  /\ exit_status = None

\* args = parse_arguments() at the top of main()
ParseArguments ==
  /\ args = None
  /\ args' = Some(parse_arguments(argv, config_file))
  /\ UNCHANGED <<running, mode, role_usage, stage_state, logs, current_stage,
                 started_at, finished_at, return_code, lock, threads, wpc,
                 line, nlines, calls, ret, asked, clock, appended, at_eof,
                 snap, argv, config_file, mpc, trace, exit_status>>

NextArgs == ParseArguments

SpecArgs == InitArgs /\ [][NextArgs]_vars

\* ------------------------------------------------------ deploy.py, main
\* how a call ended: a value returned (its Python repr), an exception that
\* left the call, or sys.exit(n) inside it
Returned(v) == [returned |-> Some(v), raised |-> None, exits |-> None]
Raised(e) == [returned |-> None, raised |-> Some(e), exits |-> None]
Exits(n) == [returned |-> None, raised |-> None, exits |-> Some(n)]

\* what can happen inside run_ansible_playbook: the two existence tests,
\* the status ansible_runner.run reports, or an exception out of it
PlaybookOutcomes ==
  {"successful", "failed", "timeout", "playbook_missing",
   "inventory_missing", "FileNotFoundError", "PermissionError",
   "CalledProcessError", "KeyboardInterrupt"}

\* the outcomes that are exceptions, and those among them that are
\* subclasses of Exception
PlaybookExceptions ==
  {"FileNotFoundError", "PermissionError", "CalledProcessError",
   "KeyboardInterrupt"}

ExceptionSubclasses ==
  {"FileNotFoundError", "PermissionError", "CalledProcessError"}

\* run_ansible_playbook(operation_name, playbook_path, inventory_path):
\* True on status "successful"; False on a missing file, on any other
\* status and on every exception the three except clauses catch
run_ansible_playbook(outcome) ==
  CASE outcome \in {"playbook_missing", "inventory_missing"} ->
         Returned("False")
    [] outcome = "successful" -> Returned("True")
    [] outcome \in PlaybookExceptions ->
         IF outcome \in ExceptionSubclasses THEN Returned("False")
         ELSE Raised(outcome)
    [] OTHER -> Returned("False")

\* run_command(..., check=True) inside run_terraform_destroy
TerraformDestroyOutcomes == {"ok", "CalledProcessError"}

run_terraform_destroy(outcome) ==
  IF outcome = "ok" THEN Returned("None") ELSE Raised(outcome)

\* run_initial_setup_and_validation_tasks: sys.exit(1) when a check fails
SetupOutcomes == {"ok", "check_failed"}

run_initial_setup_and_validation_tasks(outcome) ==
  IF outcome = "ok" THEN Returned("None") ELSE Exits(1)

\* run_terraform_deploy: a failing command raises, a planning error is
\* sys.exit(1), a declined confirmation (asked without auto_approve) is
\* sys.exit(0)
TerraformDeployOutcomes(a) ==
  {"ok", "CalledProcessError", "plan_error"}
    \cup (IF a["auto_approve"] THEN {} ELSE {"declined"})

run_terraform_deploy(outcome) ==
  CASE outcome = "ok" -> Returned("None")
    [] outcome = "plan_error" -> Exits(1)
    [] outcome = "declined" -> Exits(0)
    [] OTHER -> Raised(outcome)

\* the status os.system returns; main() ignores it
CleanupOutcomes == {"0", "256"}

\* main(): the Ansible steps of a deployment, with the flag that skips
\* each, in the order of the source
ANSIBLE_STEPS ==
  << [fn |-> "run_ansible_nat_configuration", skip |-> "skip_nat"],
     [fn |-> "run_ansible_vm_configuration", skip |-> "no_vm_update"],
     [fn |-> "run_ansible_k3s_installation", skip |-> "no_k3s"],
     [fn |-> "run_ansible_docker_installation", skip |-> "no_docker"],
     [fn |-> "run_ansible_openfaas_installation", skip |-> "no_openfaas"] >>

\* the exit status of the interpreter after an uncaught exception
UncaughtStatus(e) == IF e = "KeyboardInterrupt" THEN 130 ELSE 1

Call(fn, outcome, result) ==
  [fn |-> fn, outcome |-> outcome, returned |-> result.returned,
   raised |-> result.raised, exits |-> result.exits]

\* main() giving up as soon as a call reports a failure
MainCallsStopsOnFalse(fn, outcome, result, next) ==
  /\ trace' = Append(trace, Call(fn, outcome, result))
  /\ IF result.returned \notin {None, Some("False")}
     THEN mpc' = next /\ exit_status' = None
     ELSE /\ mpc' = "exited"
          /\ exit_status' = Some(1)
  /\ UNCHANGED <<running, mode, role_usage, stage_state, logs, current_stage,
                 started_at, finished_at, return_code, lock, threads, wpc,
                 line, nlines, calls, ret, asked, clock, appended, at_eof,
                 snap, argv, config_file, args>>

\* one call of main(): the call is recorded, and main() goes on at next
\* when the call returns, and ends when it raises or exits
MainCalls(fn, outcome, result, next) ==
  /\ trace' = Append(trace, Call(fn, outcome, result))
  /\ IF result.returned # None
     THEN mpc' = next /\ exit_status' = None
     ELSE /\ mpc' = "exited"
          /\ exit_status' = IF result.exits # None THEN result.exits
                            ELSE Some(UncaughtStatus(result.raised[1]))
  /\ UNCHANGED <<running, mode, role_usage, stage_state, logs, current_stage,
                 started_at, finished_at, return_code, lock, threads, wpc,
                 line, nlines, calls, ret, asked, clock, appended, at_eof,
                 snap, argv, config_file, args>>

\* main(), destroy selected: run_ansible_destroy()
DestroyNat ==
  /\ args # None
  /\ mpc = "main"
  /\ args[1]["destroy"]
  /\ \E o \in PlaybookOutcomes :
       MainCalls("run_ansible_destroy", o, run_ansible_playbook(o),
                 "run_terraform_destroy")

DestroyTerraform ==
  /\ mpc = "run_terraform_destroy"
  /\ \E o \in TerraformDestroyOutcomes :
       MainCalls("run_terraform_destroy", o, run_terraform_destroy(o),
                 "os.system")

\* os.system("rm -rf inventories/*")
DestroyCleanup ==
  /\ mpc = "os.system"
  /\ \E o \in CleanupOutcomes :
       MainCalls("os.system", o, Returned(o), "sys.exit")

\* sys.exit(0)
DestroyExit ==
  /\ mpc = "sys.exit"
  /\ MainCalls("sys.exit", "0", Exits(0), "exited")

\* main(), destroy not selected
Setup ==
  /\ args # None
  /\ mpc = "main"
  /\ ~args[1]["destroy"]
  /\ \E o \in SetupOutcomes :
       MainCalls("run_initial_setup_and_validation_tasks", o,
                 run_initial_setup_and_validation_tasks(o),
                 "run_terraform_deploy")

\* main() running one Ansible step at most
AfterStepEnds(i) == "print_status"

\* where main() goes on from the i-th Ansible step
AfterStep(i) == IF i < Len(ANSIBLE_STEPS) THEN ANSIBLE_STEPS[i + 1].fn
                ELSE "print_status"

TerraformDeploy ==
  /\ mpc = "run_terraform_deploy"
  /\ \E o \in TerraformDeployOutcomes(args[1]) :
       MainCalls("run_terraform_deploy", o, run_terraform_deploy(o),
                 IF args[1]["skip_ansible"] THEN "print_status"
                 ELSE ANSIBLE_STEPS[1].fn)

\* an Ansible step whose skip flag is clear
RunAnsibleStep ==
  \E i \in 1..Len(ANSIBLE_STEPS) :
    /\ mpc = ANSIBLE_STEPS[i].fn
    /\ ~args[1][ANSIBLE_STEPS[i].skip]
    /\ \E o \in PlaybookOutcomes :
         MainCalls(ANSIBLE_STEPS[i].fn, o, run_ansible_playbook(o),
                   AfterStep(i))

\* an Ansible step whose skip flag is set
SkipAnsibleStep ==
  \E i \in 1..Len(ANSIBLE_STEPS) :
    /\ mpc = ANSIBLE_STEPS[i].fn
    /\ args[1][ANSIBLE_STEPS[i].skip]
    /\ mpc' = AfterStep(i)
    /\ UNCHANGED <<running, mode, role_usage, stage_state, logs,
                   current_stage, started_at, finished_at, return_code, lock,
                   threads, wpc, line, nlines, calls, ret, asked, clock,
                   appended, at_eof, snap, argv, config_file, args, trace,
                   exit_status>>

\* print_status("Deployment completed successfully") and the return
Finish ==
  /\ mpc = "print_status"
  /\ mpc' = "exited"
  /\ exit_status' = Some(0)
  /\ UNCHANGED <<running, mode, role_usage, stage_state, logs, current_stage,
                 started_at, finished_at, return_code, lock, threads, wpc,
                 line, nlines, calls, ret, asked, clock, appended, at_eof,
                 snap, argv, config_file, args, trace>>

\* the command lines and working directories of the invocations followed
\* through main(): any flags, and a deploy.config that clears destroy
MainCommandLines ==
  [flags : SUBSET {"destroy", "skip_ansible", "skip_nat", "no_vm_update",
                   "no_k3s", "no_docker", "no_openfaas"},
   workspace : {None}]

MainConfigFiles ==
  {None,
   Some([readable |-> TRUE,
         options |-> [e \in {<<"destruction", "destroy">>} |-> <<"false">>]]),
   Some([readable |-> TRUE,
         options |-> [e \in {<<"destruction", "destroy">>,
                             <<"deployment", "auto_approve">>} |->
                        <<"false">>]])}

InitMain ==
  /\ running = FALSE
  /\ mode = DEFAULT_MODE
  /\ role_usage = [k3s |-> TRUE, docker |-> TRUE]
  /\ stage_state = _reset_state(DEFAULT_MODE, role_usage)
  /\ logs = << >>
  /\ current_stage = None
  /\ started_at = None
  /\ finished_at = None
  /\ return_code = None
  /\ lock = "free"
  /\ threads = 0
  /\ wpc = "idle"
  /\ line = << >>
  /\ nlines = 0
  /\ calls = 0
  /\ ret = None
  /\ asked = None
  /\ clock = 0
  /\ appended = << >>
  /\ at_eof = None
  /\ snap = None
  /\ argv \in MainCommandLines
  /\ config_file \in MainConfigFiles
  /\ args = None
  /\ mpc = "main"
  /\ trace = << >>
  /\ exit_status = None

NextMain ==
  \/ ParseArguments
  \/ DestroyNat
  \/ DestroyTerraform
  \/ DestroyCleanup
  \/ DestroyExit
  \/ Setup
  \/ TerraformDeploy
  \/ RunAnsibleStep
  \/ SkipAnsibleStep
  \/ Finish

SpecMain == InitMain /\ [][NextMain]_vars

\* ---------------------------------------------------------------- claims
RunningStages(stages) ==
  {i \in 1..Len(stages) : stages[i].status = "running"}

AllStages(stages, statuses) ==
  \A i \in 1..Len(stages) : stages[i].status \in statuses

AllTasks(stages, statuses) ==
  \A i \in 1..Len(stages) :
    \A k \in 1..Len(stages[i].tasks) : stages[i].tasks[k].status \in statuses

\* a run has ended: _finalize_run has cleared running and set finished_at
Ended == ~running /\ finished_at # None

\* C1: a start() call made while running is true returns False and changes
\* nothing: mode, stage list, stage and task statuses, notes, logs, current
\* stage, started_at, finished_at and return_code are the same before and
\* after the call, for every mode argument, and no second thread is started.
C1_StartWhileRunningChangesNothing ==
  [][(calls' = calls + 1 /\ running) =>
       /\ ret' = Some(FALSE)
       /\ UNCHANGED <<running, mode, role_usage, stage_state, logs,
                      current_stage, started_at, finished_at, return_code>>
       /\ UNCHANGED <<threads, wpc, line, nlines, lock>>]_vars

C1_Witness ==
  /\ running
  /\ ret = Some(FALSE)
  /\ asked = Some("destroy")
  /\ mode = "deploy"
  /\ logs # << >>
  /\ current_stage # None

\* C2: at most one run and one thread is active at a time, whatever the
\* interleaving of start() calls: a call returns True exactly when no run is
\* active, it then starts the only thread and sets running, and running is
\* set back to false only by the last step of _finalize_run, so a later call
\* returns True only after the previous run was finalized.
C2_AtMostOneRun ==
  /\ [](threads <= 1 /\ (threads = 1 => running))
  /\ [][calls' = calls + 1 => ((ret' = Some(TRUE)) <=> ~running)]_vars
  /\ [][(calls' = calls + 1 /\ ret' = Some(TRUE)) =>
          (threads = 0 /\ threads' = 1 /\ running')]_vars
  /\ [][(running /\ ~running') =>
          (wpc = "finalize_done" /\ threads' = 0)]_vars

C2_Witness ==
  /\ calls >= 2
  /\ ret = Some(TRUE)
  /\ running
  /\ threads = 1
  /\ clock = 3

\* C3: when start() has returned True the reset is already applied: until
\* the thread handles its first line the state shows running, the requested
\* mode, started_at set, finished_at and return_code None, an empty log, no
\* current stage, and every stage and task of the fresh plan pending; nothing
\* of the previous run is left.
C3_ResetAppliedAtReturn ==
  (running /\ wpc \in {"spawn", "read"} /\ appended = << >>) =>
    /\ started_at = Some(clock)
    /\ finished_at = None
    /\ return_code = None
    /\ logs = << >>
    /\ current_stage = None
    /\ AllStages(stage_state, {"pending"})
    /\ AllTasks(stage_state, {"pending"})
    /\ \A i \in 1..Len(stage_state) :
         /\ stage_state[i].note = "Waiting to start."
         /\ Len(stage_state[i].tasks) = stage_state[i].base_task_count
    /\ [i \in 1..Len(stage_state) |-> stage_state[i].id] =
         [i \in 1..Len(_reset_state(mode, role_usage)) |->
            _reset_state(mode, role_usage)[i].id]
    /\ ret = Some(TRUE) =>
         mode = IF asked[1] \in {"deploy", "destroy"} THEN asked[1]
                ELSE "deploy"

C3_Witness ==
  /\ running
  /\ wpc = "read"
  /\ appended = << >>
  /\ clock = 3
  /\ ret = Some(TRUE)
  /\ asked = Some("destroy")
  /\ mode = "destroy"

\* C4: in every state in which the runner's lock is not held, hence in every
\* snapshot and after any sequence of output lines, at most one stage has
\* status running, and current_stage names a stage if and only if that stage
\* has status running (current_stage is None iff no stage is running).
C4_OneRunningStage ==
  lock = "free" =>
    /\ Cardinality(RunningStages(stage_state)) <= 1
    /\ current_stage = None <=> RunningStages(stage_state) = {}
    /\ \A i \in RunningStages(stage_state) :
         current_stage = Some(stage_state[i].id)

C4_Witness ==
  /\ lock = "free"
  /\ current_stage = Some("nat")
  /\ \E i \in 1..Len(stage_state) :
       stage_state[i].id = "terraform" /\ stage_state[i].status = "completed"
  /\ Len(appended) = 3

\* C5: once running has become false at the end of a run, no stage and no
\* task of any stage, declared or appended during the run, has status
\* pending or running.
C5_NothingOpenAfterRun ==
  Ended => /\ AllStages(stage_state, Terminal)
           /\ AllTasks(stage_state, Terminal)

C5_Witness ==
  /\ Ended
  /\ \E i \in 1..Len(stage_state) :
       Len(stage_state[i].tasks) > stage_state[i].base_task_count
  /\ \E i \in 1..Len(stage_state) : stage_state[i].status = "failed"
  /\ \E i \in 1..Len(stage_state) : stage_state[i].status = "skipped"

\* C6, as claimed: in every reachable state, from construction onward,
\* running = false implies that every stage has a terminal status.
C6_AsClaimed == ~running => AllStages(stage_state, Terminal)

\* C6, amended: running = false implies that every stage has a terminal
\* status once a run has ended; from construction until the first start()
\* running is false and every stage is pending.
C6_TerminalOnceARunEnded ==
  ~running =>
    IF finished_at = None
    THEN /\ started_at = None
         /\ AllStages(stage_state, {"pending"})
    ELSE AllStages(stage_state, Terminal)

C6_Witness ==
  /\ Ended
  /\ calls >= 2
  /\ \E i \in 1..Len(stage_state) : stage_state[i].status = "skipped"
  /\ \E i \in 1..Len(stage_state) : stage_state[i].status = "completed"

\* C7: status_snapshot, called while the thread runs, returns the state of
\* one instant at which no transition was partly applied (never the inside
\* of _start_stage or _finalize_run, so never two running stages), and what
\* it returned is independent of the runner: transitions and log appends
\* applied after the call do not change what the holder of the snapshot sees.
C7_SnapshotAtomicAndIndependent ==
  /\ [](snap # None =>
          /\ snap[1].taken_at \notin
               {"start_stage", "finalize_pending", "finalize_done"}
          /\ Cardinality(RunningStages(snap[1].stages)) <= 1
          /\ ~snap[1].running =>
               \/ AllStages(snap[1].stages, Terminal)
               \/ snap[1].finished_at = None)
  /\ [][(snap # None /\ snap' = snap) => SnapshotSeen' = SnapshotSeen]_vars

C7_Witness ==
  /\ snap # None
  /\ snap[1].running
  /\ snap[1].taken_at = "read"
  /\ snap[1].logs # << >>
  /\ ~running
  /\ snap[1].logs # logs
  /\ snap[1].stages # stage_state

\* C8: the log never holds more than its capacity of 200 lines; after more
\* than 200 appends it holds exactly the 200 most recently appended lines,
\* in the order they were appended.
C8_LogKeepsLast200 ==
  /\ Len(logs) <= 200
  /\ IF Len(appended) <= 200
     THEN logs = appended
     ELSE logs = SubSeq(appended, Len(appended) - 199, Len(appended))

C8_Witness ==
  /\ Len(appended) > 201
  /\ Len(logs) = 200
  /\ logs[1] # appended[1]

\* C9: when the stream closes while a stage S is active, S ends completed if
\* the exit code is 0 and failed otherwise; on success every pending or
\* running task of S is completed, on failure every running task of S is
\* failed and every pending one skipped; every stage still pending is
\* skipped; and all of this is done in every state in which running is false.
EofStage == _stage_lookup(stage_state, at_eof[1].current_stage[1])

C9_ActiveStageAtEof ==
  (Ended /\ at_eof # None /\ at_eof[1].current_stage # None) =>
    LET before == at_eof[1].stage_state
        ok == return_code = Some(0)
    IN /\ Len(stage_state) = Len(before)
       /\ stage_state[EofStage].status = IF ok THEN "completed" ELSE "failed"
       /\ Len(stage_state[EofStage].tasks) = Len(before[EofStage].tasks)
       /\ \A k \in 1..Len(before[EofStage].tasks) :
            LET was == before[EofStage].tasks[k].status
                now == stage_state[EofStage].tasks[k].status
            IN now = CASE was = "running" ->
                            IF ok THEN "completed" ELSE "failed"
                       [] was = "pending" ->
                            IF ok THEN "completed" ELSE "skipped"
                       [] OTHER -> was
       /\ \A i \in 1..Len(before) :
            /\ before[i].status = "pending" =>
                 stage_state[i].status = "skipped"
            /\ (i # EofStage /\ before[i].status # "pending") =>
                 stage_state[i] = before[i]

C9_Witness ==
  /\ Ended
  /\ at_eof # None
  /\ at_eof[1].current_stage # None
  /\ return_code = Some(137)
  /\ \E k \in 1..Len(at_eof[1].stage_state[EofStage].tasks) :
       at_eof[1].stage_state[EofStage].tasks[k].status = "running"
  /\ \E k \in 1..Len(at_eof[1].stage_state[EofStage].tasks) :
       at_eof[1].stage_state[EofStage].tasks[k].status = "pending"
  /\ \E i \in 1..Len(stage_state) : at_eof[1].stage_state[i].status = "pending"
  /\ \E i \in 1..Len(stage_state) :
       at_eof[1].stage_state[i].status = "completed"

\* the stage a line starts: by a header, by "Running Ansible <label>", or by
\* the destroy phrase
StartsStage(l, id) ==
  \/ StageRule(l) = [kind |-> "start", stage |-> id]
  \/ StageRule(l).kind = "none" /\ IsPerformDestroy(l) /\ id = "destroy_tf"

\* C10: a start line of a stage S of the plan followed by the end of the
\* stream with a non-zero exit code N and no further line: S ends failed
\* with the note of an abrupt exit, every other stage (all still pending)
\* skipped, return_code N, running false, and the log ends with the line
\* reporting exit code N.
C10_StartThenAbruptExit ==
  \A i \in 1..Len(stage_state) : \A n \in ExitCodes \ {0} :
    ( /\ Ended
      /\ at_eof # None
      /\ Len(at_eof[1].appended) = 1
      /\ StartsStage(at_eof[1].appended[1], stage_state[i].id)
      /\ return_code = Some(n) ) =>
        /\ stage_state[i].status = "failed"
        /\ stage_state[i].note = "deploy.py exited abruptly."
        /\ \A j \in 1..Len(stage_state) :
             j # i => stage_state[j].status = "skipped"
        /\ ~running
        /\ logs = <<at_eof[1].appended[1], <<"deploy.py exited with code ",
                                              IntStr(n)>> >>

C10_Witness ==
  /\ Ended
  /\ return_code = Some(137)
  /\ logs = <<L_HEADER_TF, <<"deploy.py exited with code ", "137">> >>
  /\ \E i \in 1..Len(stage_state) :
       stage_state[i].id = "terraform" /\ stage_state[i].status = "failed"

\* C11: under fair scheduling of the thread, and with a child that closes
\* its output and exits, every run that was started reaches running = false,
\* whatever lines were read (the one run that does not is the run whose
\* child could not be spawned at all); and the runner has no timeout or
\* cancel: running goes from true to false only after the child's exit code
\* was collected or the attachment to its output failed.
C11_RunEndsWhenChildExits ==
  /\ running ~> (~running \/ wpc = "crashed")
  /\ [][(running /\ ~running') =>
          \/ return_code # None
          \/ appended # << >> /\ appended[1] = ATTACH_FAILED]_vars
  /\ [](running /\ wpc = "read" => return_code = None /\ at_eof = None)

C11_Witness ==
  /\ Ended
  /\ calls = 2
  /\ clock = 4
  /\ return_code = Some(137)
  /\ Len(appended) >= 2

\* C12: after running has become false at the end of a run, mode, stages,
\* tasks, notes, logs, started_at, finished_at and return_code do not change
\* until a start() call is accepted; the finished thread is gone and holds
\* no lock, so it performs no mutation after clearing running.
C12_FrozenAfterRun ==
  /\ [](~running => (wpc = "idle" /\ threads = 0 /\ lock = "free"))
  /\ [][~running =>
          \/ UNCHANGED <<running, mode, role_usage, stage_state, logs,
                         current_stage, started_at, finished_at, return_code>>
          \/ calls' = calls + 1 /\ ret' = Some(TRUE)]_vars

C12_Witness ==
  /\ Ended
  /\ calls = 2
  /\ ret = Some(FALSE)
  /\ clock = 2
  /\ logs # << >>

\* C13: every non-empty line is in the log before any transition derived
\* from it is applied (while the thread is inside the handler, the line it
\* handles is the last line of the log, and stages change only there), and
\* lines take effect in the order they were read: between two lines the
\* stages and the current stage are exactly the result of handling, one
\* after the other and in log order, every line logged so far.
C13_LoggedFirstAppliedInOrder ==
  /\ [](InLine =>
          /\ logs # << >>
          /\ appended # << >>
          /\ wpc # "all_logged" =>
               /\ line = logs[Len(logs)]
               /\ line = appended[Len(appended)])
  /\ []((running /\ wpc = "read") =>
          [stages |-> stage_state, cur |-> current_stage] =
            Replay([stages |-> _reset_state(mode, role_usage), cur |-> None],
                   appended))
  /\ [][(running /\ return_code = None /\ stage_state' # stage_state
         /\ calls' = calls /\ wpc \notin {"finalize", "finalize_pending"}) =>
          (InLine /\ logs' = logs /\ line = logs[Len(logs)])]_vars

C13_Witness ==
  /\ running
  /\ wpc = "read"
  /\ Len(appended) = 3
  /\ current_stage = Some("nat")
  /\ \E i \in 1..Len(stage_state) :
       Len(stage_state[i].tasks) > stage_state[i].base_task_count

\* a line no rule of _handle_line matches: no task marker, no header, no
\* Ansible phrase, no terraform or destroy keyword, not the destroy phrase,
\* not the end of the deployment
MatchesNoRule(l) ==
  /\ ~Contains(l, <<"TASK [">>)
  /\ \A i \in 1..Len(HEADER_STAGE_MAP) : ~Contains(l, HEADER_STAGE_MAP[i].text)
  /\ \A i \in 1..Len(ANSIBLE_STAGE_KEYWORDS) :
       LET label == ANSIBLE_STAGE_KEYWORDS[i].label
       IN /\ ~Contains(l, <<"Running Ansible ">> \o label)
          /\ ~Contains(l, <<"Ansible ">> \o label
                            \o <<" completed successfully">>)
          /\ ~Contains(l, label \o <<" failed">>)
  /\ \A k \in TERRAFORM_KEYWORDS \cup DESTROY_KEYWORDS : ~Contains(l, k)
  /\ ~(Contains(l, <<"Performing">>) /\ Contains(Lower(l), <<"destroy">>))
  /\ ~Contains(l, <<"Deployment completed successfully">>)

\* C14: reading a line that matches no rule only appends the line to the
\* log: stage statuses, notes, task lists, the current stage, running and
\* return_code are unchanged, and the thread is back at reading, ready for
\* the next line.
C14_UnmatchedLineOnlyLogged ==
  [][(wpc = "read" /\ Len(appended') = Len(appended) + 1
      /\ MatchesNoRule(appended'[Len(appended')])) =>
       /\ logs' = Append(logs, appended'[Len(appended')])
       /\ wpc' = "read"
       /\ UNCHANGED <<stage_state, current_stage, running, return_code, mode,
                      started_at, finished_at, threads, lock>>]_vars

C14_Witness ==
  /\ running
  /\ wpc = "read"
  /\ Len(appended) = 3
  /\ appended[3] = L_OTHER
  /\ MatchesNoRule(appended[3])
  /\ current_stage = Some("terraform")
  /\ logs = appended

\* the run in which the output of the child could not be attached
Detached == appended # << >> /\ appended[1] = ATTACH_FAILED

\* C15: when the output handle of the child cannot be attached the run ends
\* at once as a failed run: the diagnostic line is the only line logged, the
\* thread reads nothing and does not wait for the process (return_code
\* stays None), no stage is started or failed and every stage ends skipped,
\* and running becomes false.
C15_AttachFailureEndsRun ==
  /\ [](Detached =>
          /\ appended = <<ATTACH_FAILED>>
          /\ logs = <<ATTACH_FAILED>>
          /\ return_code = None
          /\ at_eof = None
          /\ current_stage = None
          /\ wpc \in {"finalize", "finalize_pending", "finalize_done", "idle"}
          /\ AllStages(stage_state, {"pending", "skipped"})
          /\ ~running => /\ finished_at # None
                         /\ AllStages(stage_state, {"skipped"})
                         /\ AllTasks(stage_state, {"skipped"}))
  /\ (Detached /\ running) ~> (Detached /\ ~running)

C15_Witness ==
  /\ Detached
  /\ Ended
  /\ return_code = None
  /\ calls = 2
  /\ clock = 4
  /\ AllStages(stage_state, {"skipped"})

\* every role usage determine_vm_role_usage() can return
AllRoleUsages == [k3s : BOOLEAN, docker : BOOLEAN]

\* the declared stages of mode m that role usage u lets through
KeptDefinitions(m, u) ==
  {i \in 1..Len(STAGE_DEFINITIONS(m)) :
     LET role == STAGE_DEFINITIONS(m)[i].requires_role
     IN \/ role = "none"
        \/ role = "k3s" /\ u.k3s
        \/ role = "docker" /\ u.docker}

PlanMatches(plan, m, u) ==
  LET defs == STAGE_DEFINITIONS(m)
      kept == KeptDefinitions(m, u)
  IN /\ Len(plan) = Cardinality(kept)
     /\ \A i \in kept :
          LET p == plan[Cardinality({j \in kept : j <= i})]
          IN /\ p.id = defs[i].id
             /\ p.progress_event = defs[i].progress_event
             /\ p.status = "pending"
             /\ p.note = "Waiting to start."
             /\ p.base_task_count = Len(defs[i].tasks)
             /\ Len(p.tasks) = Len(defs[i].tasks)
             /\ \A k \in 1..Len(p.tasks) :
                  p.tasks[k] = [label |-> defs[i].tasks[k],
                                status |-> "pending"]

\* C16: for each mode and each role usage the plan built at reset holds
\* exactly the stages declared for the mode whose requires_role is unset or
\* satisfied, in declaration order, each pending with the note 'Waiting to
\* start.', every declared task pending and base_task_count the number of
\* declared tasks; it is a function of the mode and the role usage alone, so
\* the plan of a runner not yet started and of every fresh run is that plan.
C16_PlanAtReset ==
  /\ \A m \in ModeNames : \A u \in AllRoleUsages :
       PlanMatches(_reset_state(m, u), m, u)
  /\ ( \/ ~running /\ finished_at = None
       \/ running /\ wpc \in {"spawn", "read"} /\ appended = << >> ) =>
       PlanMatches(stage_state, mode, role_usage)

C16_Witness ==
  /\ running
  /\ wpc = "read"
  /\ appended = << >>
  /\ clock = 3
  /\ mode = "deploy"
  /\ role_usage.docker
  /\ ~role_usage.k3s
  /\ \E i \in 1..Len(stage_state) : stage_state[i].id = "docker"
  /\ \A i \in 1..Len(stage_state) : stage_state[i].id # "k3s"
  /\ Len(stage_state) < Len(STAGE_DEFINITIONS("deploy"))

IsPrefix(s, t) == Len(s) <= Len(t) /\ s = SubSeq(t, 1, Len(s))

TaskStatuses(stage) == [k \in 1..Len(stage.tasks) |-> stage.tasks[k].status]

Terraform == stage_state[_stage_lookup(stage_state, "terraform")]

\* a run of deploy mode whose child wrote the five lines of scenario A and
\* then exited with code rc
RanScenarioA(rc) ==
  /\ Ended
  /\ mode = "deploy"
  /\ at_eof # None
  /\ at_eof[1].appended = SCENARIO_A
  /\ return_code = Some(rc)

HasStage(stage_id) == \E i \in 1..Len(stage_state) : stage_state[i].id = stage_id

K3s == stage_state[_stage_lookup(stage_state, "k3s")]

\* the four lines of scenario B have been handled by a run whose plan holds
\* the k3s stage
FedScenarioB ==
  /\ running
  /\ return_code = None
  /\ wpc = "read"
  /\ HasStage("k3s")
  /\ appended = SCENARIO_B

\* C18, as claimed: with the k3s stage in the plan, the four lines of
\* scenario B leave the k3s stage completed with exactly two tasks,
\* 'Install K3s binaries' and 'Start K3s service' in that order, both
\* completed.
C18_AsClaimed ==
  FedScenarioB =>
    /\ K3s.status = "completed"
    /\ K3s.tasks = << Task(<<"Install K3s binaries">>, "completed"),
                      Task(<<"Start K3s service">>, "completed") >>

\* what the run leaves instead: the six declared tasks followed by two
\* numbered copies of the names the markers carried, all completed
C18_Observed ==
  FedScenarioB =>
    /\ K3s.status = "completed"
    /\ K3s.base_task_count = 6
    /\ [k \in 1..Len(K3s.tasks) |-> K3s.tasks[k].label] =
         << <<"Install K3s binaries">>, <<"Start K3s service">>,
            <<"Verify API server">>, <<"Fetch kubeconfig">>,
            <<"Update kubeconfig endpoint">>,
            <<"Set kubeconfig permissions">>,
            <<"Install K3s binaries", " (2)">>,
            <<"Start K3s service", " (2)">> >>
    /\ \A k \in 1..Len(K3s.tasks) : K3s.tasks[k].status = "completed"

C18_Reached == FedScenarioB /\ Len(K3s.tasks) = 8

\* the lines of the current run handled so far that start the stage
StartedBy(stage_id) ==
  {k \in 1..Len(appended) : StartsStage(appended[k], stage_id)}

\* C19, as claimed: a stage whose status is failed was running at some
\* earlier point of the same run, that is, one of the lines of the run
\* started it; a stage that was never started is never failed.
C19_AsClaimed ==
  \A i \in 1..Len(stage_state) :
    stage_state[i].status = "failed" => StartedBy(stage_state[i].id) # {}

\* the failure line of a stage as the first line of a run: the stage is
\* failed, and the run goes on, although nothing ever started it
C19_FailedNeverStarted ==
  /\ running
  /\ wpc = "read"
  /\ appended = <<L_NAT_FAILED>>
  /\ \E i \in 1..Len(stage_state) :
       /\ stage_state[i].id = "nat"
       /\ stage_state[i].status = "failed"
       /\ stage_state[i].note = "Failed. Check deployment logs."

\* a bare invocation: no flag, no --workspace, no deploy.config
BareInvocation ==
  /\ argv = [flags |-> {}, workspace |-> None]
  /\ config_file = None
  /\ args # None

\* C20, as claimed: with no command-line flags and no configuration file,
\* parse_arguments returns every boolean option false and workspace None,
\* so a bare invocation of deploy.py deploys and does not destroy.
C20_AsClaimed ==
  BareInvocation =>
    /\ \A key \in {"force_redeploy", "continue_if_deployed", "skip_nat",
                   "skip_ansible", "no_vm_update", "no_k3s", "no_docker",
                   "destroy", "auto_approve"} : args[1][key] = FALSE
    /\ args[1]["workspace"] = None
    /\ main(args[1]) = "deploy"

\* what a bare invocation returns instead: destroy and auto_approve true
\* out of the default configuration, and main() destroys
C20_BareInvocationDestroys ==
  /\ BareInvocation
  /\ args[1]["destroy"] = TRUE
  /\ args[1]["auto_approve"] = TRUE
  /\ \A key \in BooleanOptions \ {"destroy", "auto_approve"} :
       args[1][key] = FALSE
  /\ args[1]["workspace"] = None
  /\ main(args[1]) = "destroy"

\* the functions main() has called so far, in order
TraceFns == [k \in 1..Len(trace) |-> trace[k].fn]

\* every call main() made so far came back to it
AllReturned == \A k \in 1..Len(trace) : trace[k].returned # None

DESTROY_ORDER ==
  <<"run_ansible_destroy", "run_terraform_destroy", "os.system", "sys.exit">>

Destroying == args # None /\ args[1]["destroy"]

DeployOrder(a) ==
  LET Kept(st) == ~a[st.skip]
      kept == SelectSeq(ANSIBLE_STEPS, Kept)
  IN <<"run_initial_setup_and_validation_tasks", "run_terraform_deploy">>
       \o (IF a["skip_ansible"] THEN << >>
           ELSE [k \in 1..Len(kept) |-> kept[k].fn])

Deploying == args # None /\ ~args[1]["destroy"]

AnsibleFns ==
  {"run_ansible_destroy"} \cup
    {ANSIBLE_STEPS[i].fn : i \in 1..Len(ANSIBLE_STEPS)}

\* C23, as claimed: a failure of the underlying command inside an Ansible
\* step (an error raised while the playbook runs, as in
\* run_ansible_destroy) reaches the caller as a raised error and is not
\* turned into a return value.
C23_AsClaimed ==
  \A k \in 1..Len(trace) :
    (trace[k].fn \in AnsibleFns /\ trace[k].outcome \in ExceptionSubclasses)
      => /\ trace[k].raised = Some(trace[k].outcome)
         /\ trace[k].returned = None

\* what the caller gets instead: the error of the command is caught inside
\* the step, which returns False, and main() goes on to the Terraform
\* destroy
C23_FailureReturnedAsFalse ==
  /\ Len(trace) = 1
  /\ trace[1].fn = "run_ansible_destroy"
  /\ trace[1].outcome = "CalledProcessError"
  /\ trace[1].raised = None
  /\ trace[1].returned = Some("False")
  /\ mpc = "run_terraform_destroy"

\* the stage that is active, when there is one in the plan
ActiveStage == stage_state[_stage_lookup(stage_state, current_stage[1])]

HasActiveStage == current_stage # None /\ InLookup(stage_state, current_stage[1])

\* C24: while the active stage has progress_event ansible_task, the
\* handling of a line with a 'TASK [name]' marker of non-empty name marks
\* every running task of that stage completed, leaves the other tasks and
\* the other stages as they were, and appends exactly one task, running:
\* right afterwards the stage has exactly one running task, its last one.
C24_TaskMarkerOpensOneTask ==
  [][( /\ wpc = "task"
       /\ wpc' # "task"
       /\ HasActiveStage
       /\ ActiveStage.progress_event = "ansible_task"
       /\ _extract_ansible_task_name(line) # << >> ) =>
         LET i == _stage_lookup(stage_state, current_stage[1])
             old == stage_state[i].tasks
             new == stage_state'[i].tasks
         IN /\ Len(new) = Len(old) + 1
            /\ \A k \in 1..Len(old) :
                 /\ new[k].label = old[k].label
                 /\ new[k].status = IF old[k].status = "running"
                                    THEN "completed" ELSE old[k].status
            /\ new[Len(new)].status = "running"
            /\ StartsWith(new[Len(new)].label,
                          _extract_ansible_task_name(line))
            /\ WithStatus(new, {"running"}) = {Len(new)}
            /\ \A j \in 1..Len(stage_state) :
                 j # i => stage_state'[j] = stage_state[j]
            /\ [stage_state' EXCEPT ![i].tasks = old] = stage_state]_vars

C24_Witness ==
  /\ running
  /\ wpc = "read"
  /\ appended = <<L_RUN_NAT, L_RUN_NAT, L_TASK>>
  /\ HasActiveStage
  /\ ActiveStage.id = "nat"
  /\ Len(ActiveStage.tasks) = ActiveStage.base_task_count + 1
  /\ ActiveStage.tasks[1].status = "completed"
  /\ ActiveStage.tasks[2].status = "completed"
  /\ ActiveStage.tasks[Len(ActiveStage.tasks)] =
       Task(<<"Gathering Facts">>, "running")

\* the running base tasks and the running appended tasks of a stage
RunningBase(stage) ==
  {k \in WithStatus(stage.tasks, {"running"}) : k <= stage.base_task_count}

RunningDynamic(stage) ==
  {k \in WithStatus(stage.tasks, {"running"}) : k > stage.base_task_count}

\* C25, as claimed: in every reachable state, also after a repeated start
\* line for the stage that is already active, each stage has at most one
\* base task (index below base_task_count) with status running.
C25_AsClaimed ==
  \A i \in 1..Len(stage_state) : Cardinality(RunningBase(stage_state[i])) <= 1

\* the start line of the active stage read a second time: _start_stage
\* marks the next pending task running beside the one that already is
C25_TwoRunningBaseTasks ==
  /\ running
  /\ wpc = "read"
  /\ appended = <<L_RUN_NAT, L_RUN_NAT>>
  /\ HasActiveStage
  /\ ActiveStage.id = "nat"
  /\ RunningBase(ActiveStage) = {1, 2}

\* C26: in every reachable state each stage has at most one dynamically
\* appended task (index at or above base_task_count) with status running;
\* within a run a step appends at most one task to a stage, and the task
\* is running when it is appended (it is then the only running appended
\* task of its stage).
C26_OneRunningDynamicTask ==
  /\ [](\A i \in 1..Len(stage_state) :
          Cardinality(RunningDynamic(stage_state[i])) <= 1)
  /\ [][calls' = calls =>
          /\ Len(stage_state') = Len(stage_state)
          /\ \A i \in 1..Len(stage_state) :
               LET old == stage_state[i].tasks
                   new == stage_state'[i].tasks
               IN /\ stage_state'[i].base_task_count =
                       stage_state[i].base_task_count
                  /\ Len(old) <= Len(new)
                  /\ Len(new) <= Len(old) + 1
                  /\ Len(new) = Len(old) + 1 =>
                       /\ new[Len(new)].status = "running"
                       /\ RunningDynamic(stage_state'[i]) = {Len(new)}]_vars

C26_Witness ==
  /\ running
  /\ wpc = "read"
  /\ appended = <<L_HEADER_TF, L_CREATING, L_CREATING>>
  /\ HasActiveStage
  /\ ActiveStage.id = "terraform"
  /\ Len(ActiveStage.tasks) = ActiveStage.base_task_count + 2
  /\ ActiveStage.tasks[4].status = "completed"
  /\ ActiveStage.tasks[5].status = "running"

\* the line l holds a start keyword of entry i of the table and no keyword,
\* start or completion, of an earlier entry
StartsBaseTask(sequence, i, l) ==
  /\ AnyInLower(l, sequence[i].keywords)
  /\ \A j \in 1..(i - 1) :
       /\ ~AnyInLower(l, sequence[j].keywords)
       /\ ~AnyInLower(l, sequence[j].complete_keywords)

StartsTerraformTask(i, l) ==
  /\ AnyIn(l, TERRAFORM_TASK_SEQUENCE[i].keywords)
  /\ \A j \in 1..(i - 1) :
       /\ ~AnyIn(l, TERRAFORM_TASK_SEQUENCE[j].keywords)
       /\ ~AnyIn(l, TERRAFORM_TASK_SEQUENCE[j].complete_keywords)

NoCompletionKeyword(sequence, l) ==
  \A j \in 1..Len(sequence) : ~AnyInLower(l, sequence[j].complete_keywords)

\* base tasks before i completed, base task i running unless it was completed
DrivenTo(old, new, i) ==
  /\ \A j \in 1..(i - 1) : new[j].status = "completed"
  /\ new[i].status = IF old[i].status = "completed" THEN "completed"
                     ELSE "running"

\* C27: while the terraform stage is active, the handling of a line with a
\* start keyword of base task i and no keyword of an earlier base task
\* leaves every base task before i completed and base task i running
\* unless it was completed before; while destroy_tf is active the same
\* holds, with DESTROY_TASK_SEQUENCE, for a line with no completion keyword.
C27_AsClaimed ==
  [][/\ ( /\ wpc = "terraform"
          /\ wpc' # "terraform"
          /\ HasActiveStage
          /\ ActiveStage.id = "terraform" ) =>
            \A i \in 1..Len(TERRAFORM_TASK_SEQUENCE) :
              StartsTerraformTask(i, line) =>
                DrivenTo(ActiveStage.tasks, ActiveStage'.tasks, i)
     /\ ( /\ wpc = "destroy"
          /\ wpc' # "destroy"
          /\ HasActiveStage
          /\ ActiveStage.id = "destroy_tf"
          /\ NoCompletionKeyword(DESTROY_TASK_SEQUENCE, line) ) =>
            \A i \in 1..Len(DESTROY_TASK_SEQUENCE) :
              StartsBaseTask(DESTROY_TASK_SEQUENCE, i, line) =>
                DrivenTo(ActiveStage.tasks, ActiveStage'.tasks, i)]_vars

\* after the header and a line with 'Initializing' and '[INFO] Creating',
\* 'Initialize & validate' is completed and 'Apply infrastructure' runs
C27_InitializingLineStartsApply ==
  /\ running
  /\ wpc = "read"
  /\ appended = <<L_HEADER_TF, T_INIT_CREATING>>
  /\ StartsTerraformTask(1, T_INIT_CREATING)
  /\ HasActiveStage
  /\ ActiveStage.id = "terraform"
  /\ TaskStatuses(ActiveStage) =
       <<"completed", "completed", "running", "running">>

\* the line l holds a completion keyword of entry i of
\* TERRAFORM_TASK_SEQUENCE and no keyword of an earlier entry
CompletesTerraformTask(i, l) ==
  /\ AnyIn(l, TERRAFORM_TASK_SEQUENCE[i].complete_keywords)
  /\ \A j \in 1..(i - 1) :
       /\ ~AnyIn(l, TERRAFORM_TASK_SEQUENCE[j].keywords)
       /\ ~AnyIn(l, TERRAFORM_TASK_SEQUENCE[j].complete_keywords)

\* C28: while the terraform stage is active, the handling of a line with a
\* completion keyword of base task i and no keyword of an earlier base
\* task leaves base task i completed and, when base task i+1 exists and
\* was pending, base task i+1 running.
C28_AsClaimed ==
  [][( /\ wpc = "terraform"
       /\ wpc' # "terraform"
       /\ HasActiveStage
       /\ ActiveStage.id = "terraform" ) =>
         \A i \in 1..Len(TERRAFORM_TASK_SEQUENCE) :
           CompletesTerraformTask(i, line) =>
             /\ ActiveStage'.tasks[i].status = "completed"
             /\ ( /\ i + 1 <= ActiveStage.base_task_count
                  /\ ActiveStage.tasks[i + 1].status = "pending" ) =>
                    ActiveStage'.tasks[i + 1].status = "running"]_vars

\* after the header and '[v] No changes needed' the plan task is running
\* and 'Apply infrastructure' is still pending
C28_NoChangesLeavesPlanRunning ==
  /\ running
  /\ wpc = "read"
  /\ appended = <<L_HEADER_TF, T_NO_CHANGES>>
  /\ CompletesTerraformTask(2, T_NO_CHANGES)
  /\ HasActiveStage
  /\ ActiveStage.id = "terraform"
  /\ TaskStatuses(ActiveStage) = <<"completed", "running", "pending">>

\* the appended tasks of a stage that are pending or running
OpenDynamic(stage) ==
  {k \in WithStatus(stage.tasks, {"pending", "running"}) :
     k > stage.base_task_count}

\* C29: while the terraform stage is active, right after the handling of
\* a line has appended a creation task 'Apply infrastructure', the last
\* base task, is running; and the handling of a line with the completion
\* keyword of the last base task leaves no appended task of the stage
\* pending or running.
C29_AsClaimed ==
  [][( /\ wpc = "terraform"
       /\ wpc' # "terraform"
       /\ HasActiveStage
       /\ ActiveStage.id = "terraform" ) =>
         /\ Len(ActiveStage'.tasks) > Len(ActiveStage.tasks) =>
              ActiveStage'.tasks[ActiveStage.base_task_count].status =
                "running"
         /\ CompletesTerraformTask(Len(TERRAFORM_TASK_SEQUENCE), line) =>
              OpenDynamic(ActiveStage') = {}]_vars

\* a creation marker after the completion keyword of 'Apply
\* infrastructure': a second creation task runs under the completed task
C29_CreationTaskUnderCompletedApply ==
  /\ running
  /\ wpc = "read"
  /\ appended = <<L_HEADER_TF, L_CREATING, T_INFRA_CREATED, L_CREATING>>
  /\ HasActiveStage
  /\ ActiveStage.id = "terraform"
  /\ TaskStatuses(ActiveStage) =
       <<"completed", "completed", "completed", "completed", "running">>

\* the appended tasks of a stage that belong to a resource
TasksOfResource(stage, resource) ==
  {k \in (stage.base_task_count + 1)..Len(stage.tasks) :
     StartsWith(stage.tasks[k].label, <<"Destroying", " ", resource>>)}

\* C30: while destroy_tf is active, the handling of a line
\* '<R>: Destruction complete' leaves every appended task whose label
\* starts with 'Destroying <R>' completed and leaves the status of the
\* appended tasks of every other resource as it was.
C30_AsClaimed ==
  [][( /\ wpc = "destroy"
       /\ wpc' # "destroy"
       /\ HasActiveStage
       /\ ActiveStage.id = "destroy_tf" ) =>
         \A resource \in {"vm1", "vm2"} :
           line = DestroyedLine(resource) =>
             /\ Len(ActiveStage'.tasks) = Len(ActiveStage.tasks)
             /\ \A k \in (ActiveStage.base_task_count + 1)
                           ..Len(ActiveStage.tasks) :
                  IF k \in TasksOfResource(ActiveStage, resource)
                  THEN ActiveStage'.tasks[k].status = "completed"
                  ELSE ActiveStage'.tasks[k] = ActiveStage.tasks[k]]_vars

\* vm1 and vm2 are being destroyed and 'vm1: Destruction complete' is
\* read: the task of vm2, running until then, is completed as well
C30_OtherResourceCompleted ==
  /\ running
  /\ wpc = "read"
  /\ appended = <<L_PERFORM, DestroyingLine("vm1"), DestroyingLine("vm2"),
                  DestroyedLine("vm1")>>
  /\ HasActiveStage
  /\ ActiveStage.id = "destroy_tf"
  /\ TasksOfResource(ActiveStage, "vm2") = {4}
  /\ ActiveStage.tasks[4] =
       Task(<<"Destroying", " ", "vm2">>, "completed")

\* C31: while a run is going on, every step leaves the stages of the plan
\* and the base_task_count of each as they were; the task list of a stage
\* keeps every task it had, at the same position and with the same label,
\* so it can only grow at its end; in every state it holds at least
\* base_task_count tasks.
C31_TaskListsOnlyGrow ==
  /\ [](\A i \in 1..Len(stage_state) :
          Len(stage_state[i].tasks) >= stage_state[i].base_task_count)
  /\ [][running =>
          /\ Len(stage_state') = Len(stage_state)
          /\ \A i \in 1..Len(stage_state) :
               LET old == stage_state[i].tasks
                   new == stage_state'[i].tasks
               IN /\ stage_state'[i].id = stage_state[i].id
                  /\ stage_state'[i].base_task_count =
                       stage_state[i].base_task_count
                  /\ Len(new) >= Len(old)
                  /\ \A k \in 1..Len(old) : new[k].label = old[k].label]_vars

C31_Witness ==
  /\ running
  /\ wpc = "read"
  /\ appended = <<L_RUN_NAT, L_TASK, L_TASK>>
  /\ HasActiveStage
  /\ ActiveStage.id = "nat"
  /\ ActiveStage.base_task_count = 5
  /\ Len(ActiveStage.tasks) = 7
  /\ ActiveStage.tasks[1].label = <<"Build inventories">>
  /\ ActiveStage.tasks[6].label = <<"Gathering Facts">>

\* C32: while a run is going on, a task that is completed is completed
\* after every step, and a task that is pending after a step was pending
\* before it: no task leaves completed, none returns to pending.
C32_TaskProgressMonotonic ==
  [][running =>
       \A i \in 1..Len(stage_state) :
         \A k \in 1..Len(stage_state[i].tasks) :
           /\ stage_state[i].tasks[k].status = "completed" =>
                stage_state'[i].tasks[k].status = "completed"
           /\ stage_state'[i].tasks[k].status = "pending" =>
                stage_state[i].tasks[k].status = "pending"]_vars

\* a creation marker read after 'Apply infrastructure' was completed
C32_Witness ==
  /\ running
  /\ wpc = "read"
  /\ appended = <<L_HEADER_TF, T_INFRA_CREATED, L_CREATING>>
  /\ HasActiveStage
  /\ ActiveStage.id = "terraform"
  /\ TaskStatuses(ActiveStage) =
       <<"completed", "completed", "completed", "running">>

\* the kind of the progress event a step of the line handler records
EventKind(step) ==
  CASE step = "task" -> "ansible_task"
    [] step = "terraform" -> "terraform_step"
    [] step = "destroy" -> "terraform_destroy"

\* the stage list with the tasks of every stage of `ids` blanked
WithoutTasksOf(stages, ids) ==
  [i \in 1..Len(stages) |->
     IF stages[i].id \in ids THEN [stages[i] EXCEPT !.tasks = << >>]
     ELSE stages[i]]

\* C33: the step of the line handler that records a progress event
\* (a task marker, a terraform keyword, a destroy keyword) leaves the
\* current stage as it is and changes at most the tasks of the active
\* stage; it changes nothing at all when no stage is active or when the
\* active stage declares another progress_event than the kind recorded.
C33_EventOnlyInMatchingStage ==
  [][( /\ wpc \in {"task", "terraform", "destroy"}
       /\ wpc' # wpc ) =>
         /\ current_stage' = current_stage
         /\ IF HasActiveStage
               /\ ActiveStage.progress_event = EventKind(wpc)
            THEN WithoutTasksOf(stage_state', {current_stage[1]}) =
                   WithoutTasksOf(stage_state, {current_stage[1]})
            ELSE stage_state' = stage_state]_vars

\* a creation marker and a task marker read while setup is active
C33_Witness ==
  /\ running
  /\ wpc = "read"
  /\ appended = <<L_HEADER_SETUP, L_CREATING, L_TASK>>
  /\ HasActiveStage
  /\ ActiveStage.id = "setup"
  /\ ActiveStage.progress_event \notin
       {"ansible_task", "terraform_step", "terraform_destroy"}
  /\ TaskStatuses(ActiveStage) = <<"running", "pending", "pending", "pending">>

\* the stage rule a line is expected to trigger, by priority: rank 1 a
\* header, rank 2 the phrases of the first label of ANSIBLE_STAGE_KEYWORDS
\* that has one in the line (running, then completed, then failed), rank 3
\* the destroy start, rank 4 the end of the deployment, rank 0 no rule
ChosenRule(l) ==
  LET headers == {i \in 1..Len(HEADER_STAGE_MAP) :
                    Contains(l, HEADER_STAGE_MAP[i].text)}
      Running(e) == Contains(l, <<"Running Ansible ">> \o e.label)
      Completed(e) ==
        Contains(l, <<"Ansible ">> \o e.label \o <<" completed successfully">>)
      Failed(e) == Contains(l, e.label \o <<" failed">>)
      labels == {i \in 1..Len(ANSIBLE_STAGE_KEYWORDS) :
                   LET e == ANSIBLE_STAGE_KEYWORDS[i]
                   IN Running(e) \/ Completed(e) \/ Failed(e)}
  IN IF headers # {}
     THEN [rank |-> 1, kind |-> "start",
           stage |-> HEADER_STAGE_MAP[Lowest(headers)].stage]
     ELSE IF labels # {}
     THEN LET e == ANSIBLE_STAGE_KEYWORDS[Lowest(labels)]
          IN [rank |-> 2,
              kind |-> IF Running(e) THEN "start"
                       ELSE IF Completed(e) THEN "completed" ELSE "failed",
              stage |-> e.stage]
     ELSE IF Contains(l, <<"Performing">>) /\ Contains(Lower(l), <<"destroy">>)
     THEN [rank |-> 3, kind |-> "start", stage |-> "destroy_tf"]
     ELSE IF Contains(l, <<"Deployment completed successfully">>)
     THEN [rank |-> 4, kind |-> "completed", stage |-> "current"]
     ELSE [rank |-> 0, kind |-> "none", stage |-> "none"]

\* what the stage rules can change: the status and note of each stage
StageView(stages) ==
  [i \in 1..Len(stages) |->
     [id |-> stages[i].id, status |-> stages[i].status,
      note |-> stages[i].note]]

StatusOf(stages, id) == stages[_stage_lookup(stages, id)].status

\* C34: the handler is at a stage rule of a line only when that rule is
\* the one of highest priority the line matches (header, first Ansible
\* label, destroy start, end of deployment), and at the terraform and
\* destroy events only when neither a header nor an Ansible phrase
\* matched; the task marker event comes before any rule. In the steps of
\* the handler of a line the status and note of the stages and the current
\* stage change only in the step of that one rule, after which the handler
\* returns; the
\* change is the rule's: the stage started is running and current, the
\* stage completed or failed has that status, the end of the deployment
\* completes the stage that was current.
C34_OneStageRulePerLine ==
  /\ [](InLine =>
          LET r == ChosenRule(line)
          IN /\ wpc = "task" => Contains(line, <<"TASK [">>)
             /\ wpc = "stage" => r.rank \in {1, 2}
             /\ wpc \in {"terraform", "destroy"} => r.rank \in {0, 3, 4}
             /\ wpc = "perform" => r.rank = 3
             /\ wpc = "start_stage" => r.rank \in {1, 2, 3} /\ r.kind = "start"
             /\ wpc \in {"completed", "all_logged"} => r.rank = 4)
  /\ [][( /\ InLine
           /\ wpc' # wpc ) =>
          LET r == ChosenRule(line)
              changed == \/ StageView(stage_state') # StageView(stage_state)
                         \/ current_stage' # current_stage
          IN /\ wpc \in {"task", "terraform", "destroy", "all_logged"} =>
                  ~changed
             /\ wpc \in {"stage", "perform"} => wpc' \in {"read", "start_stage"}
             /\ wpc = "start_stage" => wpc' = "read"
             /\ wpc = "completed" => wpc' \in {"read", "all_logged"}
             /\ wpc = "all_logged" => wpc' = "read"
             /\ ( /\ wpc \in {"stage", "perform", "start_stage"}
                  /\ wpc' = "read" ) =>
                    IF InLookup(stage_state, r.stage)
                    THEN /\ StatusOf(stage_state', r.stage) =
                              (IF r.kind = "start" THEN "running" ELSE r.kind)
                         /\ r.kind = "start" =>
                              current_stage' = Some(r.stage)
                         /\ \A i \in 1..Len(stage_state) :
                              stage_state[i].id \notin
                                  {r.stage} \cup
                                  {current_stage[k] :
                                     k \in 1..Len(current_stage)} =>
                                StageView(stage_state')[i] =
                                  StageView(stage_state)[i]
                    ELSE ~changed
             /\ ( /\ wpc = "completed"
                  /\ current_stage # None ) =>
                    /\ StatusOf(stage_state', current_stage[1]) = "completed"
                    /\ current_stage' = None]_vars

\* a destroy run has handled a line with 'Performing tofu destroy' and
\* 'Deployment completed successfully', then one with a header and
\* 'Deployment completed successfully': destroy_tf was started by the first
\* and is still running, neither line has ended the deployment
C34_Witness ==
  /\ running
  /\ wpc = "read"
  /\ mode = "destroy"
  /\ appended = <<R_PERFORM_DEPLOYED, R_HEADER_DEPLOYED>>
  /\ ChosenRule(R_PERFORM_DEPLOYED).rank = 3
  /\ ChosenRule(R_HEADER_DEPLOYED).rank = 1
  /\ current_stage = Some("destroy_tf")
  /\ StatusOf(stage_state, "destroy_tf") = "running"

\* C35: in every reachable state the tasks of a stage carry labels that
\* differ from one another.
C35_AsClaimed ==
  \A i \in 1..Len(stage_state) :
    \A k, n \in 1..Len(stage_state[i].tasks) :
      k # n => stage_state[i].tasks[k].label # stage_state[i].tasks[n].label

\* after the markers 'TASK [Gathering Facts (2)]' and 'TASK [Gathering
\* Facts]' the NAT stage holds the label 'Gathering Facts (2)' twice
C35_SameLabelTwice ==
  /\ running
  /\ wpc = "read"
  /\ appended = <<L_RUN_NAT, L_TASK_NUMBERED, L_TASK>>
  /\ HasActiveStage
  /\ ActiveStage.id = "nat"
  /\ Len(ActiveStage.tasks) = 7
  /\ ActiveStage.tasks[6] = Task(<<"Gathering Facts", " (2)">>, "completed")
  /\ ActiveStage.tasks[7] = Task(<<"Gathering Facts", " (2)">>, "running")

\* the stage with this id in a stage list
StageOf(stages, id) == stages[_stage_lookup(stages, id)]

\* C36: when a start line of a stage Y of the plan is handled while another
\* stage X is active, the lock is held from the closing of X to the
\* opening of Y; when it is released X is completed with note 'Finished.'
\* and has no pending or running task, Y is running, is the current stage,
\* and the task of Y that was its first pending one is running. No
\* snapshot is taken in between: none shows two running stages.
C36_StageSwitchAtomic ==
  /\ [](wpc = "start_stage" => lock = "worker")
  /\ [](snap # None =>
          /\ snap[1].taken_at # "start_stage"
          /\ Cardinality(RunningStages(snap[1].stages)) <= 1)
  /\ [][( /\ AtStart
          /\ wpc' # wpc
          /\ InLookup(stage_state, ChosenRule(line).stage)
          /\ current_stage # None
          /\ current_stage # Some(ChosenRule(line).stage) ) =>
            /\ wpc' = "start_stage"
            /\ lock' = "worker"]_vars
  /\ [][( /\ wpc = "start_stage"
          /\ wpc' # wpc ) =>
            LET X == StageOf(stage_state', current_stage[1])
                before == StageOf(stage_state, ChosenRule(line).stage)
                Y == StageOf(stage_state', ChosenRule(line).stage)
                pending == WithStatus(before.tasks, {"pending"})
            IN /\ lock' = "free"
               /\ X.status = "completed"
               /\ X.note = "Finished."
               /\ WithStatus(X.tasks, {"pending", "running"}) = {}
               /\ Y.status = "running"
               /\ current_stage' = Some(Y.id)
               /\ \A k \in pending :
                    Y.tasks[k].status =
                      IF \A n \in pending : k <= n THEN "running"
                      ELSE "pending"]_vars

\* a snapshot taken after the NAT start line has ended the terraform stage
C36_Witness ==
  /\ snap # None
  /\ snap[1].taken_at = "read"
  /\ appended = <<L_HEADER_TF, L_RUN_NAT>>
  /\ mode = "deploy"
  /\ StageOf(snap[1].stages, "terraform").status = "completed"
  /\ StageOf(snap[1].stages, "terraform").note = "Finished."
  /\ StageOf(snap[1].stages, "nat").status = "running"
  /\ StageOf(snap[1].stages, "nat").tasks[1].status = "running"
  /\ current_stage = Some("nat")

\* C37: while a line is handled the progress events come before its stage
\* rule: no event step follows a step of a stage rule, and neither the
\* reading of the line nor an event step changes the current stage, so an
\* event is recorded for the stage that was active before the line. When
\* the destroy start is handled with no stage active and destroy_tf not
\* yet started, destroy_tf ends running with 'Select Terraform/OpenTofu'
\* running and 'Destroy VM resources' pending, although the line holds a
\* start keyword of 'Destroy VM resources'.
C37_EventsBeforeStageRule ==
  /\ [][/\ wpc \in {"read", "task", "terraform", "destroy"} /\ running =>
             current_stage' = current_stage
        /\ wpc \in {"stage", "start_stage", "perform", "completed",
                    "all_logged"} =>
             wpc' \notin {"task", "terraform", "destroy"}]_vars
  /\ [][( /\ wpc = "perform"
          /\ wpc' = "read"
          /\ current_stage = None
          /\ InLookup(stage_state, "destroy_tf")
          /\ StatusOf(stage_state, "destroy_tf") = "pending" ) =>
            /\ AnyInLower(line, DESTROY_TASK_SEQUENCE[2].keywords)
            /\ current_stage' = Some("destroy_tf")
            /\ StatusOf(stage_state', "destroy_tf") = "running"
            /\ TaskStatuses(StageOf(stage_state', "destroy_tf")) =
                 <<"running", "pending">>]_vars

C37_Witness ==
  /\ running
  /\ wpc = "read"
  /\ mode = "destroy"
  /\ appended = <<L_PERFORM>>
  /\ AnyInLower(L_PERFORM, DESTROY_TASK_SEQUENCE[2].keywords)
  /\ current_stage = Some("destroy_tf")
  /\ StageOf(stage_state, "destroy_tf").tasks =
       << Task(<<"Select Terraform/OpenTofu">>, "running"),
          Task(<<"Destroy VM resources">>, "pending") >>

\* C38: when the child has exited with a non-zero code while no stage was
\* active, then from the end of the stream on nothing is appended to the
\* log (no exit-code line), running is false once the run is finalized,
\* return_code holds the code, and at the end of the run every stage that
\* was pending is skipped with its pending tasks skipped while every other
\* stage is as it was at the end of the stream: no stage has become failed.
C38_FailedExitWithoutActiveStage ==
  ( /\ at_eof # None
    /\ at_eof[1].current_stage = None
    /\ return_code # None
    /\ return_code # Some(0) ) =>
      /\ appended = at_eof[1].appended
      /\ wpc \notin {"abrupt", "abrupt_log"}
      /\ current_stage = None
      /\ Ended =>
           /\ Len(stage_state) = Len(at_eof[1].stage_state)
           /\ \A i \in 1..Len(stage_state) :
                LET before == at_eof[1].stage_state[i]
                IN IF before.status = "pending"
                   THEN /\ stage_state[i].status = "skipped"
                        /\ stage_state[i].tasks =
                             _mark_tasks(before.tasks, "skip")
                   ELSE stage_state[i] = before

\* the terraform stage was completed by the end-of-deployment line, then
\* the child exited with code 137
C38_Witness ==
  /\ Ended
  /\ mode = "deploy"
  /\ return_code = Some(137)
  /\ at_eof # None
  /\ at_eof[1].current_stage = None
  /\ appended = <<L_HEADER_TF, L_DEPLOYED, ALL_COMPLETED>>
  /\ StatusOf(stage_state, "terraform") = "completed"
  /\ StatusOf(stage_state, "nat") = "skipped"
  /\ \A i \in 1..Len(stage_state) : stage_state[i].status # "failed"

\* the line l triggers a stage rule that names a stage which is not in the
\* plan, and holds no task marker
NamesAbsentStage(l) ==
  /\ ChosenRule(l).rank \in {1, 2, 3}
  /\ ~InLookup(stage_state, ChosenRule(l).stage)
  /\ ~Contains(l, <<"TASK [">>)

\* C39: a line whose stage rule (start, completed or failed) names a stage
\* that is not in the plan of the run is appended to the log and changes
\* nothing else: no step of its handling changes a stage, a task or the
\* current stage, and the step of the rule returns from the handler
\* without touching the log.
C39_AbsentStageOnlyLogged ==
  [][/\ ( /\ running
          /\ wpc = "read"
          /\ wpc' # "read" ) =>
            /\ stage_state' = stage_state
            /\ current_stage' = current_stage
     /\ ( /\ InLine
          /\ NamesAbsentStage(line) ) =>
            /\ stage_state' = stage_state
            /\ current_stage' = current_stage
            /\ logs' = logs
            /\ ( /\ wpc \in {"stage", "perform"}
                 /\ wpc' # wpc ) => wpc' = "read"]_vars

\* a run without the k3s role in which the NAT stage is active and the
\* child has named the k3s stage as started and as failed
C39_Witness ==
  /\ running
  /\ wpc = "read"
  /\ mode = "deploy"
  /\ ~role_usage.k3s
  /\ appended = <<L_RUN_NAT, L_RUN_K3S, L_K3S_FAILED>>
  /\ ~InLookup(stage_state, "k3s")
  /\ current_stage = Some("nat")
  /\ StageOf(stage_state, "nat").status = "running"
  /\ TaskStatuses(StageOf(stage_state, "nat")) =
       <<"running", "pending", "pending", "pending", "pending">>

\* C40, as claimed: when the launch of the child process itself fails the
\* run is still finalized, that is, once the worker thread has ended on the
\* failed spawn, running is false and every stage has a terminal status
\* (so that a later start() is accepted).
C40_AsClaimed ==
  wpc = "crashed" =>
    /\ ~running
    /\ \A k \in 1..Len(stage_state) : stage_state[k].status \in Terminal

\* the spawn has raised, the worker thread is gone, the run still counts as
\* running with every stage pending, and a later start() has been rejected
C40_StuckAfterFailedSpawn ==
  /\ wpc = "crashed"
  /\ threads = 0
  /\ running
  /\ finished_at = None
  /\ return_code = None
  /\ \A k \in 1..Len(stage_state) : stage_state[k].status = "pending"
  /\ calls = 2
  /\ ret = Some(FALSE)

====
